---- MODULE Spec2Model ----
(***************************************************************************)
(* The block-producer meta-state engine (blockproducer/metastate.go): a    *)
(* dirty/readonly overlay of three keyed maps and the transaction applier  *)
(* that reads and writes through it.                                       *)
(*                                                                         *)
(* Representation.                                                         *)
(*  - A Go map is a function whose DOMAIN is the set of keys present.      *)
(*  - A Go pointer stored in a map is a sequence: <<>> is the nil pointer  *)
(*    (the deletion marker), <<o>> points to the object o.                 *)
(*  - An object that one map slot points to is held by value in the slot:  *)
(*    commit moves the dirty pointers into readonly and replaces dirty by  *)
(*    a fresh index, and every copy into dirty is a deepcopy.Copy, so a    *)
(*    write through such a pointer is a write to the slot that holds it.   *)
(*    The one place where the code writes through a pointer that may live  *)
(*    in readonly (storeBaseAccount) is a write to the readonly slot.      *)
(*  - The one pointer that the engine takes from its caller and keeps is   *)
(*    &t.Account of a BaseAccount transaction (loadOrStoreAccountObject).  *)
(*    A transaction object that the caller keeps and applies again has an  *)
(*    identity (field obj); the pointer to its account is <<o, obj>>, the  *)
(*    slots of all instances that hold it and the transaction itself are   *)
(*    one object, and a write through one of them is seen through all      *)
(*    (Aliased, Mutated).  All other transactions are decoded afresh for   *)
(*    each apply call and point to objects nobody else holds.              *)
(*  - uint64 is scaled down to W bits; arithmetic that wraps in the code   *)
(*    wraps modulo 2^W here.                                               *)
(*  - Account addresses are integers: PubKeyHash(k) = k for the public     *)
(*    keys 1..NumKeys, and the address of a chain is a distinct integer    *)
(*    derived injectively from (owner, nonce).  A DatabaseID is the hex    *)
(*    form of an address; it is modelled as the negated integer so that    *)
(*    the two key spaces stay apart.                                       *)
(***************************************************************************)
EXTENDS Integers, Sequences, FiniteSets, TLC

\* ------------------------------------------------------------------ bounds
W == 2
NumKeys == 2
MaxNonce == 3
MaxAmount == 2

\* ------------------------------------------------------- program constants
Mod == 2 ^ W
MaxU == Mod - 1

\* types.Particle, types.Wave: indices into Account.TokenBalance (1-based here)
Particle == 1
Wave == 2
TokenTypes == {Particle, Wave}

\* conf.GConf knobs read by minDeposit and updateProviderList
QPS == 1
UpdatePeriod == 1
MinProviderDeposit == 2
\* sqlchainPeriod
sqlchainPeriod == 43200

\* types.UserPermission values and types.NumberOfUserPermission
Admin == 0
Write == 1
Read == 2
NumberOfUserPermission == 3
\* types.Status values
Normal == 0
Arrears == 4

\* error kinds
OK == "nil"
ErrAccountNotFound == "AccountNotFound"
ErrAccountExists == "AccountExists"
ErrDatabaseNotFound == "DatabaseNotFound"
ErrDatabaseExists == "DatabaseExists"
ErrInvalidSender == "InvalidSender"
ErrInvalidAccountNonce == "InvalidAccountNonce"
ErrInvalidPermission == "InvalidPermission"
ErrInvalidGasPrice == "InvalidGasPrice"
ErrInsufficientAdvancePayment == "InsufficientAdvancePayment"
ErrNoSuchMiner == "NoSuchMiner"
ErrMinerUserNotMatch == "MinerUserNotMatch"
ErrGasPriceMismatch == "GasPriceMismatch"
ErrAccountPermissionDeny == "AccountPermissionDeny"
ErrWrongTokenType == "WrongTokenType"
ErrUnknownTransactionType == "UnknownTransactionType"
ErrOverflow == "Overflow"
ErrUnderflow == "Underflow"
\* a nil-pointer dereference: the call does not return
Panic == "panic"

\* ------------------------------------------------------------- addresses
Keys == 1 .. NumKeys
PubKeyHash(k) == k
HashBase == 100
\* proto.FromAccountAndNonce(owner, nonce): the id of the chain created by
\* owner at nonce; AccountAddress()/DatabaseID() convert between the forms.
DatabaseID(addr) == 0 - addr
AccountAddress(id) == 0 - id
FromAccountAndNonce(owner, nonce) == DatabaseID(HashBase + 10 * owner + nonce)
KeyAddrs == {PubKeyHash(k) : k \in Keys}

\* ------------------------------------------------------------ sequencing
\* F applied to the value of v: v is computed once, before F runs, as the
\* result of a statement is before the statements that follow it
Bind(v, F(_)) == CHOOSE r \in {F(x) : x \in {v}} : TRUE

\* ------------------------------------------------------------ map helpers
Nil == <<>>
Ptr(o) == <<o>>
\* deepcopy.Copy of the object p points to: a pointer to a new object
Copy(p) == IF p = Nil THEN Nil ELSE Ptr(p[1])
\* the pointer p after the object it points to was overwritten with o
Store(p, o) == [p EXCEPT ![1] = o]
\* the identity of the object p points to, 0 when only one slot points to it
Identity(p) == IF p # Nil /\ Len(p) = 2 THEN p[2] ELSE 0
Has(m, k) == k \in DOMAIN m
Put(m, k, v) == [x \in (DOMAIN m) \cup {k} |-> IF x = k THEN v ELSE m[x]]
Del(m, k) == [x \in (DOMAIN m) \ {k} |-> m[x]]
EmptyMap == [x \in {} |-> Nil]

newMetaIndex == [accounts |-> EmptyMap, databases |-> EmptyMap, provider |-> EmptyMap]
newMetaState == [dirty |-> newMetaIndex, readonly |-> newMetaIndex]

\* write helpers for one slot of one layer
SetAcc(s, layer, k, p) ==
    IF layer = "dirty"
    THEN [s EXCEPT !.dirty.accounts = Put(@, k, p)]
    ELSE [s EXCEPT !.readonly.accounts = Put(@, k, p)]
SetDB(s, k, p) == [s EXCEPT !.dirty.databases = Put(@, k, p)]
SetProv(s, k, p) == [s EXCEPT !.dirty.provider = Put(@, k, p)]

\* ---------------------------------------------------------- safe arithmetic
safeAdd(x, y) ==
    IF (x + y) % Mod < x THEN [v |-> x, err |-> ErrOverflow]
    ELSE [v |-> (x + y) % Mod, err |-> OK]
safeSub(x, y) ==
    IF x < y THEN [v |-> x, err |-> ErrUnderflow]
    ELSE [v |-> x - y, err |-> OK]

\* types.Account (the Address field always equals the key and is never read)
Account(nonce, particle, wave) == [NextNonce |-> nonce, TokenBalance |-> <<particle, wave>>]
EmptyAccount == Account(0, 0, 0)

\* ------------------------------------------------------------ overlay: loads
loadAccountObject(s, k) ==
    IF Has(s.dirty.accounts, k)
    THEN [o |-> s.dirty.accounts[k], loaded |-> s.dirty.accounts[k] # Nil]
    ELSE IF Has(s.readonly.accounts, k)
         THEN [o |-> s.readonly.accounts[k], loaded |-> TRUE]
         ELSE [o |-> Nil, loaded |-> FALSE]

\* v is the pointer the caller passes, and it is the pointer that dirty keeps;
\* where: the layer whose object is returned
loadOrStoreAccountObject(s, k, v) ==
    IF Has(s.dirty.accounts, k) /\ s.dirty.accounts[k] # Nil
    THEN [s |-> s, o |-> s.dirty.accounts[k], loaded |-> TRUE, where |-> "dirty"]
    ELSE IF Has(s.readonly.accounts, k)
         THEN [s |-> s, o |-> s.readonly.accounts[k], loaded |-> TRUE, where |-> "readonly"]
         ELSE [s |-> SetAcc(s, "dirty", k, v), o |-> Nil, loaded |-> FALSE, where |-> "dirty"]

loadAccountBalance(s, addr, tt) ==
    IF Has(s.dirty.accounts, addr) /\ s.dirty.accounts[addr] # Nil
    THEN [b |-> s.dirty.accounts[addr][1].TokenBalance[tt], loaded |-> TRUE]
    ELSE IF Has(s.readonly.accounts, addr)
         THEN [b |-> s.readonly.accounts[addr][1].TokenBalance[tt], loaded |-> TRUE]
         ELSE [b |-> 0, loaded |-> FALSE]
loadAccountStableBalance(s, addr) == loadAccountBalance(s, addr, Particle)
loadAccountCovenantBalance(s, addr) == loadAccountBalance(s, addr, Wave)

loadSQLChainObject(s, k) ==
    IF Has(s.dirty.databases, k)
    THEN [o |-> s.dirty.databases[k], loaded |-> s.dirty.databases[k] # Nil]
    ELSE IF Has(s.readonly.databases, k)
         THEN [o |-> s.readonly.databases[k], loaded |-> TRUE]
         ELSE [o |-> Nil, loaded |-> FALSE]

loadOrStoreSQLChainObject(s, k, v) ==
    IF Has(s.dirty.databases, k) /\ s.dirty.databases[k] # Nil
    THEN [s |-> s, o |-> s.dirty.databases[k], loaded |-> TRUE]
    ELSE IF Has(s.readonly.databases, k)
         THEN [s |-> s, o |-> s.readonly.databases[k], loaded |-> TRUE]
         ELSE [s |-> SetDB(s, k, Ptr(v)), o |-> Nil, loaded |-> FALSE]

loadProviderObject(s, k) ==
    IF Has(s.dirty.provider, k)
    THEN [o |-> s.dirty.provider[k], loaded |-> s.dirty.provider[k] # Nil]
    ELSE IF Has(s.readonly.provider, k)
         THEN [o |-> s.readonly.provider[k], loaded |-> TRUE]
         ELSE [o |-> Nil, loaded |-> FALSE]

loadOrStoreProviderObject(s, k, v) ==
    IF Has(s.dirty.provider, k) /\ s.dirty.provider[k] # Nil
    THEN [s |-> s, o |-> s.dirty.provider[k], loaded |-> TRUE]
    ELSE IF Has(s.readonly.provider, k)
         THEN [s |-> s, o |-> s.readonly.provider[k], loaded |-> TRUE]
         ELSE [s |-> SetProv(s, k, Ptr(v)), o |-> Nil, loaded |-> FALSE]

\* --------------------------------------------------------- overlay: deletes
deleteAccountObject(s, k) == SetAcc(s, "dirty", k, Nil)
deleteSQLChainObject(s, k) == SetDB(s, k, Nil)
deleteProviderObject(s, k) == SetProv(s, k, Nil)

\* ------------------------------------------------- overlay: commit and clean
\* fold of one dirty map into one readonly map
FoldMap(ro, d) ==
    [k \in ((DOMAIN ro) \cup {x \in DOMAIN d : d[x] # Nil}) \ {x \in DOMAIN d : d[x] = Nil} |->
        IF Has(d, k) THEN d[k] ELSE ro[k]]

commit(s) ==
    [dirty |-> newMetaIndex,
     readonly |-> [accounts |-> FoldMap(s.readonly.accounts, s.dirty.accounts),
                   databases |-> FoldMap(s.readonly.databases, s.dirty.databases),
                   provider |-> FoldMap(s.readonly.provider, s.dirty.provider)]]

clean(s) == [s EXCEPT !.dirty = newMetaIndex]

\* metaIndex.deepCopy: every value is cloned
deepCopy(i) == [i EXCEPT !.accounts = [k \in DOMAIN @ |-> Copy(@[k])]]

\* a copy that takes the uncommitted changes along
makeCopyKeepDirty(s) == [dirty |-> s.dirty, readonly |-> deepCopy(s.readonly)]

makeCopy(s) == [dirty |-> newMetaIndex, readonly |-> deepCopy(s.readonly)]


\* ------------------------------------------------------ account mutation
\* sets one token balance of the account object held in dirty[k]
SetBalance(s, k, tt, b) ==
    [s EXCEPT !.dirty.accounts[k] = Store(@, [@[1] EXCEPT !.TokenBalance[tt] = b])]

\* the copy-on-write prologue shared by increaseAccountToken,
\* decreaseAccountToken and increaseNonce
CopyToDirty(s, k) ==
    IF Has(s.dirty.accounts, k) THEN [s |-> s, err |-> OK]
    ELSE IF ~Has(s.readonly.accounts, k) THEN [s |-> s, err |-> ErrAccountNotFound]
    ELSE [s |-> SetAcc(s, "dirty", k, Copy(s.readonly.accounts[k])), err |-> OK]

\* an increaseAccountToken that adds with the plain, wrapping + of uint64
increaseAccountTokenWrapping(s, k, amount, tt) ==
    LET c == CopyToDirty(s, k) IN
    IF c.err # OK THEN c
    ELSE IF c.s.dirty.accounts[k] = Nil THEN [s |-> c.s, err |-> Panic]
    ELSE [s |-> SetBalance(c.s, k, tt, (c.s.dirty.accounts[k][1].TokenBalance[tt] + amount) % Mod),
          err |-> OK]

increaseAccountToken(s, k, amount, tt) ==
    LET c == CopyToDirty(s, k) IN
    IF c.err # OK THEN c
    ELSE IF c.s.dirty.accounts[k] = Nil THEN [s |-> c.s, err |-> Panic]
    ELSE LET r == safeAdd(c.s.dirty.accounts[k][1].TokenBalance[tt], amount) IN
         [s |-> SetBalance(c.s, k, tt, r.v), err |-> r.err]

decreaseAccountToken(s, k, amount, tt) ==
    LET c == CopyToDirty(s, k) IN
    IF c.err # OK THEN c
    ELSE IF c.s.dirty.accounts[k] = Nil THEN [s |-> c.s, err |-> Panic]
    ELSE LET r == safeSub(c.s.dirty.accounts[k][1].TokenBalance[tt], amount) IN
         [s |-> SetBalance(c.s, k, tt, r.v), err |-> r.err]

increaseAccountStableBalance(s, k, amount) == increaseAccountToken(s, k, amount, Particle)
decreaseAccountStableBalance(s, k, amount) == decreaseAccountToken(s, k, amount, Particle)
increaseAccountCovenantBalance(s, k, amount) == increaseAccountToken(s, k, amount, Wave)

nextNonce(s, addr) ==
    IF Has(s.dirty.accounts, addr)
    THEN IF s.dirty.accounts[addr] = Nil THEN [nonce |-> 0, err |-> Panic]
         ELSE [nonce |-> s.dirty.accounts[addr][1].NextNonce, err |-> OK]
    ELSE IF Has(s.readonly.accounts, addr)
         THEN [nonce |-> s.readonly.accounts[addr][1].NextNonce, err |-> OK]
         ELSE [nonce |-> 0, err |-> ErrAccountNotFound]

increaseNonce(s, addr) ==
    LET c == CopyToDirty(s, addr) IN
    IF c.err # OK THEN c
    ELSE IF c.s.dirty.accounts[addr] = Nil THEN [s |-> c.s, err |-> Panic]
    ELSE [s |-> [c.s EXCEPT !.dirty.accounts[addr] =
                                Store(@, [@[1] EXCEPT !.NextNonce = (@ + 1) % Mod])],
          err |-> OK]

\* ---------------------------------------------------------------- handlers
\* a storeBaseAccount that overwrites the balances of an existing account
storeBaseAccountOverwrite(s, k, v) ==
    LET l == loadOrStoreAccountObject(s, k, v) IN
    IF ~l.loaded THEN [s |-> l.s, err |-> OK]
    ELSE IF l.o[1].NextNonce # 0 THEN [s |-> s, err |-> ErrAccountExists]
    ELSE [s |-> SetAcc(s, l.where, k, Store(l.o, [l.o[1] EXCEPT !.TokenBalance = v[1].TokenBalance])),
          err |-> OK]

\* BaseAccount: v points to the account carried by the transaction
storeBaseAccount(s, k, v) ==
    LET l == loadOrStoreAccountObject(s, k, v) IN
    IF ~l.loaded THEN [s |-> l.s, err |-> OK]
    ELSE LET ao == l.o[1]
             cb == safeAdd(ao.TokenBalance[Wave], v[1].TokenBalance[Wave])
             sb == safeAdd(ao.TokenBalance[Particle], v[1].TokenBalance[Particle])
         IN IF ao.NextNonce # 0 THEN [s |-> s, err |-> ErrAccountExists]
            ELSE IF cb.err # OK THEN [s |-> s, err |-> cb.err]
            ELSE IF sb.err # OK THEN [s |-> s, err |-> sb.err]
            ELSE [s |-> SetAcc(s, l.where, k,
                               Store(l.o, [ao EXCEPT !.TokenBalance = <<sb.v, cb.v>>])),
                  err |-> OK]

\* the error left in err by the signee check of a Transfer (no return follows it)
SenderCheck(transfer) ==
    IF PubKeyHash(transfer.Signee) # transfer.Sender THEN ErrInvalidSender ELSE OK

\* a transfer that credits the receiver and forgets to write the sender's balance
transferAccountTokenNoDebit(s, transfer) ==
    LET err0 == SenderCheck(transfer)
        sender == transfer.Sender
        receiver == transfer.Receiver
        amount == transfer.Amount
        tt == transfer.TokenType
    IN
    IF sender = receiver \/ amount = 0 THEN [s |-> s, err |-> err0]
    ELSE
    LET s1 == loadOrStoreAccountObject(s, receiver, Ptr(EmptyAccount)).s
        sd == Has(s1.dirty.accounts, sender)
        rd == Has(s1.dirty.accounts, receiver)
    IN
    IF ~sd /\ ~Has(s1.readonly.accounts, sender) THEN [s |-> s1, err |-> ErrAccountNotFound]
    ELSE IF ~rd /\ ~Has(s1.readonly.accounts, receiver) THEN [s |-> s1, err |-> ErrAccountNotFound]
    ELSE
    LET so == IF sd THEN s1.dirty.accounts[sender] ELSE s1.readonly.accounts[sender]
        ro == IF rd THEN s1.dirty.accounts[receiver] ELSE s1.readonly.accounts[receiver]
    IN
    IF so = Nil \/ ro = Nil THEN [s |-> s1, err |-> Panic]
    ELSE
    LET sb == safeSub(so[1].TokenBalance[tt], amount)
        rb == safeAdd(ro[1].TokenBalance[tt], amount)
    IN
    IF sb.err # OK THEN [s |-> s1, err |-> sb.err]
    ELSE IF rb.err # OK THEN [s |-> s1, err |-> rb.err]
    ELSE
    LET s2 == IF sd THEN s1 ELSE SetAcc(s1, "dirty", sender, Copy(so))
        s3 == IF rd THEN s2 ELSE SetAcc(s2, "dirty", receiver, Copy(ro))
    IN [s |-> SetBalance(s3, receiver, tt, rb.v), err |-> OK]

transferAccountToken(s, transfer) ==
    LET err0 == SenderCheck(transfer)
        sender == transfer.Sender
        receiver == transfer.Receiver
        amount == transfer.Amount
        tt == transfer.TokenType
    IN
    IF sender = receiver \/ amount = 0 THEN [s |-> s, err |-> err0]
    ELSE
    LET s1 == loadOrStoreAccountObject(s, receiver, Ptr(EmptyAccount)).s
        sd == Has(s1.dirty.accounts, sender)
        rd == Has(s1.dirty.accounts, receiver)
    IN
    IF ~sd /\ ~Has(s1.readonly.accounts, sender) THEN [s |-> s1, err |-> ErrAccountNotFound]
    ELSE IF ~rd /\ ~Has(s1.readonly.accounts, receiver) THEN [s |-> s1, err |-> ErrAccountNotFound]
    ELSE
    LET so == IF sd THEN s1.dirty.accounts[sender] ELSE s1.readonly.accounts[sender]
        ro == IF rd THEN s1.dirty.accounts[receiver] ELSE s1.readonly.accounts[receiver]
    IN
    IF so = Nil \/ ro = Nil THEN [s |-> s1, err |-> Panic]
    ELSE
    LET sb == safeSub(so[1].TokenBalance[tt], amount)
        rb == safeAdd(ro[1].TokenBalance[tt], amount)
    IN
    IF sb.err # OK THEN [s |-> s1, err |-> sb.err]
    ELSE IF rb.err # OK THEN [s |-> s1, err |-> rb.err]
    ELSE
    LET s2 == IF sd THEN s1 ELSE SetAcc(s1, "dirty", sender, Copy(so))
        s3 == IF rd THEN s2 ELSE SetAcc(s2, "dirty", receiver, Copy(ro))
    IN [s |-> SetBalance(SetBalance(s3, sender, tt, sb.v), receiver, tt, rb.v), err |-> OK]

applyBillingFrom(s, tx, i) ==
    LET RECURSIVE Go(_, _)
        Go(st, j) ==
            IF j > Len(tx.Receivers) THEN [s |-> st, err |-> OK]
            ELSE LET v == tx.Receivers[j] IN
                 Bind(loadOrStoreAccountObject(st, v, Ptr(EmptyAccount)).s, LAMBDA s1 :
                 Bind(increaseAccountCovenantBalance(s1, v, tx.Fees[j]), LAMBDA r1 :
                 IF r1.err # OK THEN r1
                 ELSE
                 Bind(increaseAccountStableBalance(r1.s, v, tx.Rewards[j]), LAMBDA r2 :
                 IF r2.err # OK THEN r2
                 ELSE Go(r2.s, j + 1))))
    IN Go(s, i)

applyBilling(s, tx) == applyBillingFrom(s, tx, 1)


\* ------------------------------------------------- providers and databases
\* a minimum deposit that leaves out the number of miners
minDepositPerChain(gasPrice, minerNumber) == (gasPrice * QPS * UpdatePeriod) % Mod

minDeposit(gasPrice, minerNumber) == (gasPrice * QPS * UpdatePeriod * minerNumber) % Mod

\* the sender of a transaction that carries only a signee
SigneeAddress(tx) == PubKeyHash(tx.Signee)

updateProviderList(s, tx) ==
    LET sender == PubKeyHash(tx.Signee)
        pp == [Provider |-> sender, Space |-> tx.Space, Memory |-> tx.Memory,
               LoadAvgPerCPU |-> tx.LoadAvgPerCPU, TargetUser |-> tx.TargetUser,
               Deposit |-> MinProviderDeposit, GasPrice |-> tx.GasPrice,
               NodeID |-> tx.NodeID]
    IN Bind(decreaseAccountStableBalance(s, sender, MinProviderDeposit), LAMBDA d :
       IF d.err # OK THEN d
       ELSE [s |-> loadOrStoreProviderObject(d.s, sender, pp).s, err |-> OK])

\* the calls of generateGenesisBlock and of its caller that return an error
\* in a process whose key store or encoder fails; env.fails names the call
\* that fails, NoFailure when none does
NoFailure == ""
GetLocalPrivateKey == "kms.GetLocalPrivateKey"
GetLocalNodeID == "kms.GetLocalNodeID"
PackAndSignBlock == "PackAndSignBlock"
EncodeMsgPackCall == "utils.EncodeMsgPack"
Failures == {GetLocalPrivateKey, GetLocalNodeID, PackAndSignBlock, EncodeMsgPackCall}
ErrOf(call) == "error of " \o call

\* generateGenesisBlock: the block carries the header fields and the
\* signature of the local key (0 while unsigned); genesisBlock is Nil when
\* the key store fails before the block is built.
\* env: [nodeID, privKey, now, fails] of the process that runs the call
GenesisVersion == 16777216
generateGenesisBlock(env) ==
    IF env.fails = GetLocalPrivateKey THEN [genesisBlock |-> Nil, err |-> ErrOf(GetLocalPrivateKey)]
    ELSE IF env.fails = GetLocalNodeID THEN [genesisBlock |-> Nil, err |-> ErrOf(GetLocalNodeID)]
    ELSE IF env.fails = PackAndSignBlock
         THEN [genesisBlock |-> Ptr([Version |-> GenesisVersion, Producer |-> env.nodeID,
                                     Timestamp |-> env.now, Signee |-> 0]),
               err |-> ErrOf(PackAndSignBlock)]
    ELSE [genesisBlock |-> Ptr([Version |-> GenesisVersion, Producer |-> env.nodeID,
                                Timestamp |-> env.now, Signee |-> env.privKey]),
          err |-> OK]

\* utils.EncodeMsgPack of a block
EncodeMsgPack(gb, env) ==
    IF env.fails = EncodeMsgPackCall THEN [enc |-> <<>>, err |-> ErrOf(EncodeMsgPackCall)]
    ELSE [enc |-> <<gb.Version, gb.Producer, gb.Timestamp, gb.Signee>>, err |-> OK]

\* a miner-resolution loop that does not compare the target user of the offer
ResolveMinersAnyUser(s, tx, sender) ==
    LET RECURSIVE Go(_, _)
        Go(i, acc) ==
            IF i > Len(tx.TargetMiners) THEN [miners |-> acc, err |-> OK]
            ELSE LET l == loadProviderObject(s, tx.TargetMiners[i]) IN
                 IF ~l.loaded THEN [miners |-> acc, err |-> ErrNoSuchMiner]
                 ELSE IF l.o[1].GasPrice > tx.GasPrice THEN [miners |-> acc, err |-> ErrGasPriceMismatch]
                 ELSE Go(i + 1, Append(acc,
                         [Address |-> l.o[1].Provider, NodeID |-> l.o[1].NodeID,
                          Deposit |-> l.o[1].Deposit, EncryptionKey |-> "",
                          PendingIncome |-> 0, ReceivedIncome |-> 0,
                          UserArrears |-> <<>>]))
    IN Go(1, <<>>)

\* the miner-resolution loop: the first error in list order, or the miners
ResolveMiners(s, tx, sender) ==
    LET RECURSIVE Go(_, _)
        Go(i, acc) ==
            IF i > Len(tx.TargetMiners) THEN [miners |-> acc, err |-> OK]
            ELSE LET l == loadProviderObject(s, tx.TargetMiners[i]) IN
                 IF ~l.loaded THEN [miners |-> acc, err |-> ErrNoSuchMiner]
                 ELSE IF l.o[1].TargetUser # sender THEN [miners |-> acc, err |-> ErrMinerUserNotMatch]
                 ELSE IF l.o[1].GasPrice > tx.GasPrice THEN [miners |-> acc, err |-> ErrGasPriceMismatch]
                 ELSE Go(i + 1, Append(acc,
                         [Address |-> l.o[1].Provider, NodeID |-> l.o[1].NodeID,
                          Deposit |-> l.o[1].Deposit, EncryptionKey |-> "",
                          PendingIncome |-> 0, ReceivedIncome |-> 0,
                          UserArrears |-> <<>>]))
    IN Go(1, <<>>)

\* a CreateDatabase that leaves the offers of its miners in place
KeepProviders(s, miners) == s

DeleteProviders(s, miners) ==
    LET RECURSIVE Go(_, _)
        Go(st, i) == IF i > Len(miners) THEN st
                     ELSE Go(deleteProviderObject(st, miners[i]), i + 1)
    IN Go(s, 1)

matchProvidersWithUser(s, tx, env) ==
    LET sender == PubKeyHash(tx.Signee)
        minAdvancePayment == minDeposit(tx.GasPrice, Len(tx.TargetMiners))
        res == ResolveMiners(s, tx, sender)
        dbID == FromAccountAndNonce(tx.Owner, tx.Nonce)
        dbAddr == AccountAddress(dbID)
        all == safeAdd(minAdvancePayment, tx.AdvancePayment)
    IN
    IF sender # tx.Owner THEN [s |-> s, err |-> ErrInvalidSender]
    ELSE IF tx.GasPrice <= 0 THEN [s |-> s, err |-> ErrInvalidGasPrice]
    ELSE IF tx.AdvancePayment < minAdvancePayment THEN [s |-> s, err |-> ErrInsufficientAdvancePayment]
    ELSE IF res.err # OK THEN [s |-> s, err |-> res.err]
    ELSE IF all.err # OK THEN [s |-> s, err |-> all.err]
    ELSE
    LET users == << [Address |-> sender, Permission |-> Admin, Status |-> Normal,
                     Deposit |-> minAdvancePayment, AdvancePayment |-> tx.AdvancePayment] >>
        gb == generateGenesisBlock(env)
        enc == EncodeMsgPack(gb.genesisBlock[1], env)
        sp == [ID |-> dbID, Address |-> dbAddr, Period |-> sqlchainPeriod,
               GasPrice |-> tx.GasPrice, TokenType |-> Particle, Owner |-> sender,
               Users |-> users, EncodedGenesis |-> enc.enc, Miners |-> res.miners]
    IN
    Bind(decreaseAccountToken(s, sender, all.v, tx.TokenType), LAMBDA d :
    IF d.err # OK THEN d
    ELSE IF gb.err # OK THEN [s |-> d.s, err |-> gb.err]
    ELSE IF enc.err # OK THEN [s |-> d.s, err |-> enc.err]
    ELSE IF loadSQLChainObject(d.s, dbID).loaded THEN [s |-> d.s, err |-> ErrDatabaseExists]
    ELSE
    Bind(loadOrStoreAccountObject(d.s, dbAddr, Ptr(EmptyAccount)).s, LAMBDA s1 :
    Bind(loadOrStoreSQLChainObject(s1, dbID, sp).s, LAMBDA s2 :
    [s |-> DeleteProviders(s2, tx.TargetMiners), err |-> OK])))

\* index of the last user whose address is addr, 0 if none (targetUserIndex)
LastUserIndex(users, addr) ==
    LET m == {i \in 1 .. Len(users) : users[i].Address = addr} IN
    IF m = {} THEN 0 ELSE CHOOSE i \in m : \A j \in m : j <= i

IsAdmin(users, addr) ==
    \E i \in 1 .. Len(users) : users[i].Address = addr /\ users[i].Permission = Admin

\* an updatePermission that appends an entry without looking for the user
updatePermissionAppend(s, tx) ==
    LET sender == PubKeyHash(tx.Signee)
        id == DatabaseID(tx.TargetSQLChain)
        l == loadSQLChainObject(s, id)
    IN
    IF sender = tx.TargetUser THEN [s |-> s, err |-> ErrInvalidSender]
    ELSE IF ~l.loaded THEN [s |-> s, err |-> ErrDatabaseNotFound]
    ELSE IF tx.Permission >= NumberOfUserPermission THEN [s |-> s, err |-> ErrInvalidPermission]
    ELSE
    LET so == l.o[1]
        u == [Address |-> tx.TargetUser, Permission |-> tx.Permission, Status |-> Normal,
              Deposit |-> 0, AdvancePayment |-> 0]
        so2 == [so EXCEPT !.Users = Append(@, u)]
    IN
    IF ~IsAdmin(so.Users, sender) THEN [s |-> s, err |-> ErrAccountPermissionDeny]
    ELSE [s |-> SetDB(s, id, Ptr(so2)), err |-> OK]

\* an updatePermission that lets a user change its own permission
updatePermissionBySelf(s, tx) ==
    LET sender == PubKeyHash(tx.Signee)
        id == DatabaseID(tx.TargetSQLChain)
        l == loadSQLChainObject(s, id)
    IN
    IF ~l.loaded THEN [s |-> s, err |-> ErrDatabaseNotFound]
    ELSE IF tx.Permission >= NumberOfUserPermission THEN [s |-> s, err |-> ErrInvalidPermission]
    ELSE
    LET so == l.o[1]
        idx == LastUserIndex(so.Users, tx.TargetUser)
        u == [Address |-> tx.TargetUser, Permission |-> tx.Permission, Status |-> Normal,
              Deposit |-> 0, AdvancePayment |-> 0]
        so2 == IF idx = 0 THEN [so EXCEPT !.Users = Append(@, u)]
               ELSE [so EXCEPT !.Users[idx].Permission = tx.Permission]
    IN
    IF ~IsAdmin(so.Users, sender) THEN [s |-> s, err |-> ErrAccountPermissionDeny]
    ELSE [s |-> SetDB(s, id, Ptr(so2)), err |-> OK]

\* an updatePermission that lets any sender through the admin check
updatePermissionAnySender(s, tx) ==
    LET sender == PubKeyHash(tx.Signee)
        id == DatabaseID(tx.TargetSQLChain)
        l == loadSQLChainObject(s, id)
    IN
    IF sender = tx.TargetUser THEN [s |-> s, err |-> ErrInvalidSender]
    ELSE IF ~l.loaded THEN [s |-> s, err |-> ErrDatabaseNotFound]
    ELSE IF tx.Permission >= NumberOfUserPermission THEN [s |-> s, err |-> ErrInvalidPermission]
    ELSE
    LET so == l.o[1]
        idx == LastUserIndex(so.Users, tx.TargetUser)
        u == [Address |-> tx.TargetUser, Permission |-> tx.Permission, Status |-> Normal,
              Deposit |-> 0, AdvancePayment |-> 0]
        so2 == IF idx = 0 THEN [so EXCEPT !.Users = Append(@, u)]
               ELSE [so EXCEPT !.Users[idx].Permission = tx.Permission]
    IN [s |-> SetDB(s, id, Ptr(so2)), err |-> OK]

updatePermission(s, tx) ==
    LET sender == PubKeyHash(tx.Signee)
        id == DatabaseID(tx.TargetSQLChain)
        l == loadSQLChainObject(s, id)
    IN
    IF sender = tx.TargetUser THEN [s |-> s, err |-> ErrInvalidSender]
    ELSE IF ~l.loaded THEN [s |-> s, err |-> ErrDatabaseNotFound]
    ELSE IF tx.Permission >= NumberOfUserPermission THEN [s |-> s, err |-> ErrInvalidPermission]
    ELSE
    LET so == l.o[1]
        idx == LastUserIndex(so.Users, tx.TargetUser)
        u == [Address |-> tx.TargetUser, Permission |-> tx.Permission, Status |-> Normal,
              Deposit |-> 0, AdvancePayment |-> 0]
        so2 == IF idx = 0 THEN [so EXCEPT !.Users = Append(@, u)]
               ELSE [so EXCEPT !.Users[idx].Permission = tx.Permission]
    IN
    IF ~IsAdmin(so.Users, sender) THEN [s |-> s, err |-> ErrAccountPermissionDeny]
    ELSE [s |-> SetDB(s, id, Ptr(so2)), err |-> OK]

\* keyMap of updateKeys: the key of the last entry naming the miner
LastKeyIndex(minerKeys, addr) ==
    LET m == {i \in 1 .. Len(minerKeys) : minerKeys[i].Miner = addr} IN
    IF m = {} THEN 0 ELSE CHOOSE i \in m : \A j \in m : j <= i

\* the profile as updateKeys leaves its private deep copy
updateKeysProfile(so, tx) ==
    [so EXCEPT !.Miners = [i \in 1 .. Len(so.Miners) |->
        LET k == LastKeyIndex(tx.MinerKeys, so.Miners[i].Address) IN
        IF k = 0 THEN so.Miners[i]
        ELSE [so.Miners[i] EXCEPT !.EncryptionKey = tx.MinerKeys[k].EncryptionKey]]]

\* the deep copy is modified and dropped: nothing is written back
updateKeys(s, tx) ==
    LET sender == SigneeAddress(tx)
        l == loadSQLChainObject(s, DatabaseID(tx.TargetSQLChain))
    IN
    IF ~l.loaded THEN [s |-> s, err |-> ErrDatabaseNotFound]
    ELSE IF ~IsAdmin(l.o[1].Users, sender) THEN [s |-> s, err |-> ErrAccountPermissionDeny]
    ELSE [s |-> s, err |-> OK]


\* ---------------------------------------------------------- updateBilling
\* costMap[user]: the cost of the last entry of tx.Users naming user, else 0
costMap(tx, user) ==
    LET m == {i \in 1 .. Len(tx.Users) : tx.Users[i].User = user} IN
    IF m = {} THEN 0 ELSE tx.Users[CHOOSE i \in m : \A j \in m : j <= i].Cost

\* userMap[user][miner]: the wrapped sum of the incomes listed for the pair
SumIncome(incomes, miner) ==
    LET RECURSIVE Go(_, _)
        Go(i, acc) == IF i > Len(incomes) THEN acc
                      ELSE Go(i + 1, IF incomes[i].Miner = miner
                                     THEN (acc + incomes[i].Income) % Mod ELSE acc)
    IN Go(1, 0)
userMap(tx, user, miner) ==
    LET RECURSIVE Go(_, _)
        Go(i, acc) == IF i > Len(tx.Users) THEN acc
                      ELSE Go(i + 1, IF tx.Users[i].User = user
                                     THEN (acc + SumIncome(tx.Users[i].Miners, miner)) % Mod
                                     ELSE acc)
    IN Go(1, 0)

\* the first loop over the miners: pending income is rolled into received
SettleMiners(miners) ==
    [i \in 1 .. Len(miners) |->
        [miners[i] EXCEPT !.ReceivedIncome = (@ + miners[i].PendingIncome) % Mod,
                          !.PendingIncome = 0]]

\* the (income, advance, bill) below 2^3 for which the float64 value of
\* 1 - advance / bill lies under the exact fraction, so that the product with
\* income truncates to one less than the exact quotient
FloatShort == {<<5, 4, 5>>, <<6, 5, 6>>}

\* uint64(float64(income) * rate) with rate = 1 - advance / bill
ArrearsIncome(income, advance, bill) ==
    (income * (bill - advance)) \div bill
        - (IF <<income, advance, bill>> \in FloatShort THEN 1 ELSE 0)

\* one iteration of the loop over the users of the profile
BillUser(profile, tx, i) ==
    LET user == profile.Users[i]
        gp == profile.GasPrice
        bill == (costMap(tx, user.Address) * gp) % Mod
        income(m) == (userMap(tx, user.Address, m.Address) * gp) % Mod
    IN
    IF user.AdvancePayment >= bill
    THEN [profile EXCEPT
            !.Users[i].AdvancePayment = @ - bill,
            !.Miners = [j \in 1 .. Len(profile.Miners) |->
                [profile.Miners[j] EXCEPT
                    !.PendingIncome = (@ + income(profile.Miners[j])) % Mod]]]
    ELSE [profile EXCEPT
            !.Users[i].AdvancePayment = 0,
            !.Users[i].Status = Arrears,
            !.Miners = [j \in 1 .. Len(profile.Miners) |->
                LET inc == income(profile.Miners[j])
                    mi == ArrearsIncome(inc, user.AdvancePayment, bill)
                IN [profile.Miners[j] EXCEPT
                    !.PendingIncome = (@ + mi) % Mod,
                    !.UserArrears = [k \in 1 .. Len(profile.Miners[j].UserArrears) |->
                        [profile.Miners[j].UserArrears[k] EXCEPT
                            !.Arrears = (@ + (inc - mi)) % Mod]]]]]

BillUsers(profile, tx) ==
    LET RECURSIVE Go(_, _)
        Go(p, i) == IF i > Len(p.Users) THEN p
                    ELSE Bind(BillUser(p, tx, i), LAMBDA q : Go(q, i + 1))
    IN Go(profile, 1)

\* an updateBilling that bills on behalf of any sender
updateBillingAnySender(s, tx) ==
    LET id == DatabaseID(tx.Receiver)
        l == loadSQLChainObject(s, id)
    IN
    IF ~l.loaded THEN [s |-> s, err |-> ErrDatabaseNotFound]
    ELSE IF l.o[1].GasPrice = 0 THEN [s |-> s, err |-> OK]
    ELSE Bind([l.o[1] EXCEPT !.Miners = SettleMiners(@)], LAMBDA settled :
         [s |-> SetDB(s, id, Ptr(BillUsers(settled, tx))), err |-> OK])

\* an updateBilling that adds to the pending incomes without settling them
updateBillingNoSettle(s, tx) ==
    LET id == DatabaseID(tx.Receiver)
        l == loadSQLChainObject(s, id)
        minerAddr == SigneeAddress(tx)
    IN
    IF ~l.loaded THEN [s |-> s, err |-> ErrDatabaseNotFound]
    ELSE IF l.o[1].GasPrice = 0 THEN [s |-> s, err |-> OK]
    ELSE IF ~(\E i \in 1 .. Len(l.o[1].Miners) : l.o[1].Miners[i].Address = minerAddr)
         THEN [s |-> s, err |-> ErrInvalidSender]
    ELSE [s |-> SetDB(s, id, Ptr(BillUsers(l.o[1], tx))), err |-> OK]

updateBilling(s, tx) ==
    LET id == DatabaseID(tx.Receiver)
        l == loadSQLChainObject(s, id)
        minerAddr == SigneeAddress(tx)
    IN
    IF ~l.loaded THEN [s |-> s, err |-> ErrDatabaseNotFound]
    ELSE IF l.o[1].GasPrice = 0 THEN [s |-> s, err |-> OK]
    ELSE IF ~(\E i \in 1 .. Len(l.o[1].Miners) : l.o[1].Miners[i].Address = minerAddr)
         THEN [s |-> s, err |-> ErrInvalidSender]
    ELSE Bind([l.o[1] EXCEPT !.Miners = SettleMiners(@)], LAMBDA settled :
         [s |-> SetDB(s, id, Ptr(BillUsers(settled, tx))), err |-> OK])

\* ------------------------------------------- Transfer sent by a chain address
\* the first user of the chain whose address is the sender, 0 if none
FirstUserIndex(users, addr) ==
    LET m == {i \in 1 .. Len(users) : users[i].Address = addr} IN
    IF m = {} THEN 0 ELSE CHOOSE i \in m : \A j \in m : i <= j

transferSQLChainTokenBalance(s, transfer) ==
    LET err0 == SenderCheck(transfer)
        id == DatabaseID(transfer.Sender)
        l == loadSQLChainObject(s, id)
    IN
    IF ~l.loaded THEN [s |-> s, err |-> ErrDatabaseNotFound]
    ELSE
    LET sqlchain == l.o[1]
        i == FirstUserIndex(sqlchain.Users, transfer.Sender)
    IN
    IF i = 0 THEN [s |-> s, err |-> err0]
    ELSE IF sqlchain.TokenType # transfer.TokenType THEN [s |-> s, err |-> ErrWrongTokenType]
    ELSE
    LET user == sqlchain.Users[i]
        minDep == minDeposit(sqlchain.GasPrice, Len(sqlchain.Miners))
        diff == minDep - user.Deposit
        adv == safeAdd(user.AdvancePayment, transfer.Amount)
        newDeposit == IF diff >= transfer.Amount
                      THEN (user.Deposit + transfer.Amount) % Mod
                      ELSE (minDep + (transfer.Amount - diff)) % Mod
    IN
    IF user.Deposit < minDep
    THEN [s |-> loadOrStoreSQLChainObject(s, id,
                    [sqlchain EXCEPT !.Users[i].Deposit = newDeposit]).s,
          err |-> err0]
    ELSE IF adv.err # OK THEN [s |-> s, err |-> adv.err]
    ELSE [s |-> loadOrStoreSQLChainObject(s, id,
                    [sqlchain EXCEPT !.Users[i].AdvancePayment = adv.v]).s,
          err |-> OK]

\* ------------------------------------------------------------- the applier
TransactionTypeTransfer == "Transfer"
TransactionTypeBilling == "Billing"
TransactionTypeBaseAccount == "BaseAccount"
TransactionTypeProvideService == "ProvideService"
TransactionTypeCreateDatabase == "CreateDatabase"
TransactionTypeUpdatePermission == "UpdatePermission"
TransactionTypeIssueKeys == "IssueKeys"
TransactionTypeUpdateBilling == "UpdateBilling"
TransactionTypeWrapper == "Wrapper"

RECURSIVE GetAccountAddress(_)
GetAccountAddress(tx) ==
    CASE tx.type = TransactionTypeTransfer -> tx.Sender
      [] tx.type = TransactionTypeBilling -> tx.Producer
      [] tx.type = TransactionTypeBaseAccount -> tx.Address
      [] tx.type = TransactionTypeCreateDatabase -> tx.Owner
      [] tx.type = TransactionTypeWrapper -> GetAccountAddress(tx.Inner)
      [] OTHER -> PubKeyHash(tx.Signee)

RECURSIVE GetAccountNonce(_)
GetAccountNonce(tx) ==
    IF tx.type = TransactionTypeWrapper THEN GetAccountNonce(tx.Inner) ELSE tx.Nonce

RECURSIVE GetTransactionType(_)
GetTransactionType(tx) ==
    IF tx.type = TransactionTypeWrapper THEN GetTransactionType(tx.Inner) ELSE tx.type

\* &t.Account of a BaseAccount: the account is part of the transaction object,
\* which has an identity when the caller keeps it (field obj)
AddressOfAccount(t) ==
    IF "obj" \in DOMAIN t THEN <<t.Account, t.obj>> ELSE Ptr(t.Account)

RECURSIVE applyTransaction(_, _, _)
applyTransaction(s, tx, env) ==
    CASE tx.type = TransactionTypeTransfer ->
            Bind(transferSQLChainTokenBalance(s, tx), LAMBDA r :
            IF r.err = ErrDatabaseNotFound THEN transferAccountToken(r.s, tx) ELSE r)
      [] tx.type = TransactionTypeBilling -> applyBilling(s, tx)
      [] tx.type = TransactionTypeBaseAccount ->
            storeBaseAccount(s, tx.Address, AddressOfAccount(tx))
      [] tx.type = TransactionTypeProvideService -> updateProviderList(s, tx)
      [] tx.type = TransactionTypeCreateDatabase -> matchProvidersWithUser(s, tx, env)
      [] tx.type = TransactionTypeUpdatePermission -> updatePermission(s, tx)
      [] tx.type = TransactionTypeIssueKeys -> updateKeys(s, tx)
      [] tx.type = TransactionTypeUpdateBilling -> updateBilling(s, tx)
      [] tx.type = TransactionTypeWrapper -> applyTransaction(s, tx.Inner, env)
      [] OTHER -> [s |-> s, err |-> ErrUnknownTransactionType]

\* apply without the comparison of the nonce
applyNoNonceCheck(s, t, env) ==
    LET addr == GetAccountAddress(t)
        n == nextNonce(s, addr)
    IN
    IF n.err = Panic THEN [s |-> s, err |-> Panic]
    ELSE IF n.err # OK /\ GetTransactionType(t) # TransactionTypeBaseAccount
         THEN [s |-> s, err |-> n.err]
    ELSE Bind(applyTransaction(s, t, env), LAMBDA r :
         IF r.err # OK THEN r ELSE increaseNonce(r.s, addr))

apply(s, t, env) ==
    LET addr == GetAccountAddress(t)
        nonce == GetAccountNonce(t)
        n == nextNonce(s, addr)
    IN
    IF n.err = Panic THEN [s |-> s, err |-> Panic]
    ELSE IF n.err # OK /\ GetTransactionType(t) # TransactionTypeBaseAccount
         THEN [s |-> s, err |-> n.err]
    ELSE IF n.nonce # nonce THEN [s |-> s, err |-> ErrInvalidAccountNonce]
    ELSE Bind(applyTransaction(s, t, env), LAMBDA r :
         IF r.err # OK THEN r ELSE increaseNonce(r.s, addr))


\* ------------------------------------------------------------ state machine
\* ms[i]     the meta-state of instance i (1: the original; 2: a copy made by
\*           makeCopy, or the second replica)
\* local[i]  the key store and the clock of the process that runs instance i
\* snap[i]   the readonly index of instance i right after its last commit
\* last      the last call: its kind, the instance, and for apply the type
\*           of the transaction and the error returned (Digest)
\* kept      the BaseAccount transaction object that the caller has applied
\*           and still holds (a pointer, Nil when it holds none)
\* ------------------------------------------------- raft/configuration.go
\* ServerSuffrage
Peer == 0
Learner == 1
Staging == 2

\* ConfigurationChangeCommand
AddStaging == 0
AddLearner == 1
Demote == 2
RemoveServer == 3
Promote == 4

\* the errors of checkConfiguration and nextConfiguration, by their message
ErrEmptyID == "Empty ID in configuration"
ErrEmptyAddress == "Empty address in configuration"
ErrDuplicateID == "Found duplicate ID in configuration"
ErrDuplicateAddress == "Found duplicate address in configuration"
ErrNoVoter == "Need at least one voter in configuration"
ErrConfigurationChanged == "Configuration changed since"

\* Server; PubKey is a pointer
Server(suffrage, id, address, pubKey) ==
    [Suffrage |-> suffrage, ID |-> id, Address |-> address, PubKey |-> pubKey]

\* Configuration{}: the zero value
EmptyConfiguration ==
    [Term |-> 0, Leader |-> Server(Peer, "", "", Nil), Servers |-> <<>>, Signature |-> Nil]

\* Configuration.Clone: the servers are copied into a new slice
Clone(c) ==
    [Term |-> c.Term, Leader |-> c.Leader,
     Servers |-> [i \in 1 .. Len(c.Servers) |-> c.Servers[i]], Signature |-> c.Signature]

isPeer(configuration, id) ==
    LET m == {i \in 1 .. Len(configuration.Servers) : configuration.Servers[i].ID = id} IN
    IF m = {} THEN FALSE
    ELSE configuration.Servers[CHOOSE i \in m : \A j \in m : i <= j].Suffrage = Peer

\* checkConfiguration: the first error met in the order of the servers, then
\* the count of the voters
checkConfiguration(configuration) ==
    LET servers == configuration.Servers
        RECURSIVE Go(_, _, _, _)
        Go(i, idSet, addressSet, voters) ==
            IF i > Len(servers)
            THEN IF voters = 0 THEN ErrNoVoter ELSE OK
            ELSE IF servers[i].ID = "" THEN ErrEmptyID
            ELSE IF servers[i].Address = "" THEN ErrEmptyAddress
            ELSE IF servers[i].ID \in idSet THEN ErrDuplicateID
            ELSE IF servers[i].Address \in addressSet THEN ErrDuplicateAddress
            ELSE Go(i + 1, idSet \cup {servers[i].ID}, addressSet \cup {servers[i].Address},
                    IF servers[i].Suffrage = Peer THEN voters + 1 ELSE voters)
    IN Go(1, {}, {}, 0)

\* the index of the first server with the id, 0 if there is none: every loop
\* of nextConfiguration breaks at its first match
\* index of the first server with the ID that is Staging, 0 if none (the
\* guard of the Promote loop)
FirstStagingIndex(servers, id) ==
    LET m == {i \in 1 .. Len(servers) : servers[i].ID = id /\ servers[i].Suffrage = Staging}
    IN IF m = {} THEN 0 ELSE CHOOSE i \in m : \A j \in m : i <= j

FirstServerIndex(servers, id) ==
    LET m == {i \in 1 .. Len(servers) : servers[i].ID = id} IN
    IF m = {} THEN 0 ELSE CHOOSE i \in m : \A j \in m : i <= j

\* the switch with an AddStaging that adds the server as Staging
ApplyChangeAsStaging(configuration, change) ==
    LET servers == configuration.Servers
        i == FirstServerIndex(servers, change.serverID)
    IN
    CASE change.command = AddStaging ->
            LET newServer == Server(Staging, change.serverID, change.serverAddress, Nil) IN
            IF i = 0 THEN [configuration EXCEPT !.Servers = Append(servers, newServer)]
            ELSE IF servers[i].Suffrage = Peer
                 THEN [configuration EXCEPT !.Servers[i].Address = change.serverAddress]
                 ELSE [configuration EXCEPT !.Servers[i] = newServer]
      [] change.command = AddLearner ->
            LET newServer == Server(Learner, change.serverID, change.serverAddress, Nil) IN
            IF i = 0 THEN [configuration EXCEPT !.Servers = Append(servers, newServer)]
            ELSE IF servers[i].Suffrage # Learner
                 THEN [configuration EXCEPT !.Servers[i].Address = change.serverAddress]
                 ELSE [configuration EXCEPT !.Servers[i] = newServer]
      [] change.command = Demote ->
            IF i = 0 THEN configuration
            ELSE [configuration EXCEPT !.Servers[i].Suffrage = Learner]
      [] change.command = RemoveServer ->
            IF i = 0 THEN configuration
            ELSE [configuration EXCEPT
                    !.Servers = SubSeq(servers, 1, i - 1) \o SubSeq(servers, i + 1, Len(servers))]
      [] change.command = Promote ->
            LET k == FirstStagingIndex(servers, change.serverID) IN
            IF k = 0 THEN configuration
            ELSE [configuration EXCEPT !.Servers[k].Suffrage = Peer]
      [] OTHER -> configuration

\* the switch with an AddLearner that makes every server it finds a Learner
ApplyChangeAsLearner(configuration, change) ==
    LET servers == configuration.Servers
        i == FirstServerIndex(servers, change.serverID)
    IN
    CASE change.command = AddStaging ->
            LET newServer == Server(Peer, change.serverID, change.serverAddress, Nil) IN
            IF i = 0 THEN [configuration EXCEPT !.Servers = Append(servers, newServer)]
            ELSE IF servers[i].Suffrage = Peer
                 THEN [configuration EXCEPT !.Servers[i].Address = change.serverAddress]
                 ELSE [configuration EXCEPT !.Servers[i] = newServer]
      [] change.command = AddLearner ->
            LET newServer == Server(Learner, change.serverID, change.serverAddress, Nil) IN
            IF i = 0 THEN [configuration EXCEPT !.Servers = Append(servers, newServer)]
            ELSE [configuration EXCEPT !.Servers[i] = newServer]
      [] change.command = Demote ->
            IF i = 0 THEN configuration
            ELSE [configuration EXCEPT !.Servers[i].Suffrage = Learner]
      [] change.command = RemoveServer ->
            IF i = 0 THEN configuration
            ELSE [configuration EXCEPT
                    !.Servers = SubSeq(servers, 1, i - 1) \o SubSeq(servers, i + 1, Len(servers))]
      [] change.command = Promote ->
            LET k == FirstStagingIndex(servers, change.serverID) IN
            IF k = 0 THEN configuration
            ELSE [configuration EXCEPT !.Servers[k].Suffrage = Peer]
      [] OTHER -> configuration

\* the switch with a Promote that makes every server it finds a Peer
ApplyChangePromoteAny(configuration, change) ==
    LET servers == configuration.Servers
        i == FirstServerIndex(servers, change.serverID)
    IN
    CASE change.command = AddStaging ->
            LET newServer == Server(Peer, change.serverID, change.serverAddress, Nil) IN
            IF i = 0 THEN [configuration EXCEPT !.Servers = Append(servers, newServer)]
            ELSE IF servers[i].Suffrage = Peer
                 THEN [configuration EXCEPT !.Servers[i].Address = change.serverAddress]
                 ELSE [configuration EXCEPT !.Servers[i] = newServer]
      [] change.command = AddLearner ->
            LET newServer == Server(Learner, change.serverID, change.serverAddress, Nil) IN
            IF i = 0 THEN [configuration EXCEPT !.Servers = Append(servers, newServer)]
            ELSE IF servers[i].Suffrage # Learner
                 THEN [configuration EXCEPT !.Servers[i].Address = change.serverAddress]
                 ELSE [configuration EXCEPT !.Servers[i] = newServer]
      [] change.command = Demote ->
            IF i = 0 THEN configuration
            ELSE [configuration EXCEPT !.Servers[i].Suffrage = Learner]
      [] change.command = RemoveServer ->
            IF i = 0 THEN configuration
            ELSE [configuration EXCEPT
                    !.Servers = SubSeq(servers, 1, i - 1) \o SubSeq(servers, i + 1, Len(servers))]
      [] change.command = Promote ->
            IF i = 0 THEN configuration
            ELSE [configuration EXCEPT !.Servers[i].Suffrage = Peer]
      [] OTHER -> configuration

\* the switch of nextConfiguration on the cloned configuration
ApplyChange(configuration, change) ==
    LET servers == configuration.Servers
        i == FirstServerIndex(servers, change.serverID)
    IN
    CASE change.command = AddStaging ->
            LET newServer == Server(Peer, change.serverID, change.serverAddress, Nil) IN
            IF i = 0 THEN [configuration EXCEPT !.Servers = Append(servers, newServer)]
            ELSE IF servers[i].Suffrage = Peer
                 THEN [configuration EXCEPT !.Servers[i].Address = change.serverAddress]
                 ELSE [configuration EXCEPT !.Servers[i] = newServer]
      [] change.command = AddLearner ->
            LET newServer == Server(Learner, change.serverID, change.serverAddress, Nil) IN
            IF i = 0 THEN [configuration EXCEPT !.Servers = Append(servers, newServer)]
            ELSE IF servers[i].Suffrage # Learner
                 THEN [configuration EXCEPT !.Servers[i].Address = change.serverAddress]
                 ELSE [configuration EXCEPT !.Servers[i] = newServer]
      [] change.command = Demote ->
            IF i = 0 THEN configuration
            ELSE [configuration EXCEPT !.Servers[i].Suffrage = Learner]
      [] change.command = RemoveServer ->
            IF i = 0 THEN configuration
            ELSE [configuration EXCEPT
                    !.Servers = SubSeq(servers, 1, i - 1) \o SubSeq(servers, i + 1, Len(servers))]
      [] change.command = Promote ->
            LET k == FirstStagingIndex(servers, change.serverID) IN
            IF k = 0 THEN configuration
            ELSE [configuration EXCEPT !.Servers[k].Suffrage = Peer]
      [] OTHER -> configuration

\* a nextConfiguration that returns the changed configuration unchecked
nextConfigurationUnchecked(current, currentIndex, change) ==
    IF change.prevIndex > 0 /\ change.prevIndex # currentIndex
    THEN [configuration |-> EmptyConfiguration, err |-> ErrConfigurationChanged]
    ELSE [configuration |-> ApplyChange(Clone(current), change), err |-> OK]

nextConfiguration(current, currentIndex, change) ==
    IF change.prevIndex > 0 /\ change.prevIndex # currentIndex
    THEN [configuration |-> EmptyConfiguration, err |-> ErrConfigurationChanged]
    ELSE Bind(ApplyChange(Clone(current), change), LAMBDA configuration :
         Bind(checkConfiguration(configuration), LAMBDA err :
         IF err # OK THEN [configuration |-> EmptyConfiguration, err |-> err]
         ELSE [configuration |-> configuration, err |-> OK]))

\* cfgs: the latest configuration of a raft server and its log index
\* (configurations.latest, latestIndex) with the outcome of the last call of
\* nextConfiguration
VARIABLES ms, local, snap, last, cfgs, kept
vars == <<ms, local, snap, last, cfgs, kept>>

\* no configuration change was asked for yet
NoChange == [command |-> Promote, serverID |-> "", serverAddress |-> "", prevIndex |-> 0]
NoConfigurations ==
    [latest |-> EmptyConfiguration, latestIndex |-> 0, change |-> NoChange,
     next |-> EmptyConfiguration, err |-> OK, called |-> FALSE]

Instances == 1 .. Len(ms)

NoCall == [op |-> "init", on |-> 0, type |-> "", err |-> OK]

\* the number of clock readings that differ within one run
NumTimes == 2
Times == 1 .. NumTimes

\* a process: its key store, the time it is at (clock) and the last time of
\* the run (until)
LocalProcess(n, t) ==
    [nodeID |-> n, privKey |-> n, clock |-> t, until |-> NumTimes, fails |-> NoFailure]

\* a process in which the call f fails
FailingProcess(n, t, f) == [LocalProcess(n, t) EXCEPT !.fails = f]

Init ==
    /\ ms = <<newMetaState>>
    /\ local = <<LocalProcess(1, 1)>>
    /\ snap = <<newMetaIndex>>
    /\ last = NoCall
    /\ kept = Nil
    /\ cfgs = NoConfigurations

\* ---- inputs
ChainAddrs == {HashBase + 10 * o + n : o \in KeyAddrs, n \in 0 .. MaxNonce}
Addrs == KeyAddrs \cup ChainAddrs
DBIDs == {DatabaseID(a) : a \in ChainAddrs}

\* the nonce the gate expects from addr, and one it does not
Expected(s, addr) == nextNonce(s, addr).nonce
NonceInputs(s, addr) ==
    LET c == Expected(s, addr) IN {c, IF c > 0 THEN c - 1 ELSE c + 1}

\* the chains known to s, and one address that names no chain
ChainInputs(s) ==
    {AccountAddress(id) : id \in (DOMAIN s.dirty.databases) \cup (DOMAIN s.readonly.databases)}
        \cup {HashBase}

Amounts == {0, MaxAmount}
BalanceInputs == {<<MaxAmount, 0>>, <<MaxAmount, MaxAmount>>}

BaseAccountTxs(s) ==
    {[type |-> TransactionTypeBaseAccount, Address |-> a, Nonce |-> n,
      Account |-> Account(nn, b[1], b[2])] :
        a \in KeyAddrs, n \in {0, 1}, nn \in {0, 1}, b \in BalanceInputs}

TransferTxs(s) ==
    UNION {{[type |-> TransactionTypeTransfer, Sender |-> a, Receiver |-> r, Signee |-> k,
             Amount |-> amt, TokenType |-> tt, Nonce |-> n] :
              r \in KeyAddrs, k \in Keys, amt \in Amounts, tt \in TokenTypes,
              n \in NonceInputs(s, a)} : a \in KeyAddrs}

PayInputs == {<<MaxAmount, 0>>, <<0, MaxAmount>>}
BillingTxs(s) ==
    UNION {
      {[type |-> TransactionTypeBilling, Producer |-> a, Nonce |-> n,
        Receivers |-> <<r>>, Fees |-> <<f[1]>>, Rewards |-> <<f[2]>>] :
          r \in KeyAddrs, f \in PayInputs, n \in NonceInputs(s, a)}
      \cup
      {[type |-> TransactionTypeBilling, Producer |-> a, Nonce |-> n,
        Receivers |-> <<1, 2>>, Fees |-> <<f[1], g[1]>>, Rewards |-> <<f[2], g[2]>>] :
          f \in PayInputs, g \in PayInputs, n \in NonceInputs(s, a)}
      : a \in KeyAddrs}

\* inputs of the specification that runs every transaction kind: key 1 is
\* the user who owns chains, key 2 the miner
ChainSenders(s) == KeyAddrs \cup (ChainInputs(s) \ {HashBase})

ChainBaseAccountTxs(s) ==
    UNION {{[type |-> TransactionTypeBaseAccount, Address |-> a, Nonce |-> n,
             Account |-> Account(0, MaxAmount, 0)] : n \in NonceInputs(s, a)} : a \in KeyAddrs}

ChainTransferTxs(s) ==
    UNION {{[type |-> TransactionTypeTransfer, Sender |-> a, Receiver |-> 2, Signee |-> k,
             Amount |-> MaxAmount, TokenType |-> Particle, Nonce |-> n] :
              k \in Keys, n \in NonceInputs(s, a)} : a \in ChainSenders(s)}

ChainBillingTxs(s) ==
    {[type |-> TransactionTypeBilling, Producer |-> 2, Nonce |-> n,
      Receivers |-> <<1>>, Fees |-> <<0>>, Rewards |-> <<MaxAmount>>] :
        n \in NonceInputs(s, 2)}

ProvideServiceTxs(s) ==
    UNION {{[type |-> TransactionTypeProvideService, Signee |-> k, Nonce |-> n,
             Space |-> 1, Memory |-> 1, LoadAvgPerCPU |-> 1, TargetUser |-> u,
             GasPrice |-> gp, NodeID |-> k] :
              u \in KeyAddrs, gp \in {1, 2}, n \in NonceInputs(s, PubKeyHash(k))} : k \in {2}}

MinerInputs == {<<>>, <<2>>, <<2, 1>>}
CreateDatabaseTxs(s) ==
    {[type |-> TransactionTypeCreateDatabase, Owner |-> 1, Signee |-> k, Nonce |-> n,
      TargetMiners |-> tm, GasPrice |-> gp, AdvancePayment |-> ap, TokenType |-> tt] :
        k \in Keys, tm \in MinerInputs, gp \in {0, 1}, ap \in {1, MaxAmount},
        tt \in TokenTypes, n \in NonceInputs(s, 1)}

UpdatePermissionTxs(s) ==
    UNION {{[type |-> TransactionTypeUpdatePermission, Signee |-> kc[1], Nonce |-> n,
             TargetSQLChain |-> kc[2], TargetUser |-> u, Permission |-> perm] :
              u \in KeyAddrs,
              perm \in {Admin, Read, NumberOfUserPermission},
              n \in NonceInputs(s, PubKeyHash(kc[1]))} : kc \in Keys \X ChainInputs(s)}

IssueKeysTxs(s) ==
    UNION {{[type |-> TransactionTypeIssueKeys, Signee |-> k, Nonce |-> n,
             TargetSQLChain |-> c,
             MinerKeys |-> <<[Miner |-> 2, EncryptionKey |-> "key"]>>] :
              c \in ChainInputs(s), n \in NonceInputs(s, PubKeyHash(k))} : k \in Keys}

CostInputs ==
    {<<>>} \cup {<<[User |-> 1, Cost |-> c, Miners |-> <<[Miner |-> 2, Income |-> 1]>>]>> :
                    c \in 1 .. MaxAmount}
UpdateBillingTxs(s) ==
    UNION {{[type |-> TransactionTypeUpdateBilling, Signee |-> k, Nonce |-> n,
             Receiver |-> c, Users |-> us] :
              c \in ChainInputs(s), us \in CostInputs,
              n \in NonceInputs(s, PubKeyHash(k))} : k \in Keys}

\* ---- actions
\* what generateGenesisBlock reads from the process that runs instance i at
\* the time of the call (local[i].clock is the time of the process now):
\* kms.GetLocalNodeID, kms.GetLocalPrivateKey and time.Now
Env(i) ==
    [nodeID |-> local[i].nodeID, privKey |-> local[i].privKey, now |-> local[i].clock,
     fails |-> local[i].fails]

\* time.Now at the next call of generateGenesisBlock in a process whose last
\* reading was clock: every accepted CreateDatabase has read the clock, and
\* the next reading is the same or a later time
NextReadings(process, tx, err) ==
    IF GetTransactionType(tx) = TransactionTypeCreateDatabase /\ err = OK
    THEN process.clock .. process.until
    ELSE {process.clock}

\* what last keeps of a call of apply on instance i that returned r from the
\* meta-state s: the type of the transaction and the error, or only that the
\* call was refused when it returned an error and changed nothing
Refused == "refused"
Digest(i, tx, r, s) ==
    IF r.err # OK /\ r.s = s
    THEN [op |-> "apply", on |-> i, type |-> "", err |-> Refused]
    ELSE [op |-> "apply", on |-> i, type |-> GetTransactionType(tx), err |-> r.err]

\* the account pointers that the slots of s hold
AccountPointers(s) ==
    {s.dirty.accounts[k] : k \in DOMAIN s.dirty.accounts}
        \cup {s.readonly.accounts[k] : k \in DOMAIN s.readonly.accounts}

\* the pointer p as it reads once the calls on s are done: when s holds a
\* pointer to the same object, the object is the one s has written
Deref(s, p) ==
    IF Identity(p) = 0 THEN p
    ELSE LET same == {q \in AccountPointers(s) : Identity(q) = Identity(p)}
         IN IF same = {} THEN p ELSE CHOOSE q \in same : TRUE

\* the meta-state o after the calls that left the meta-state s: the slots of o
\* that point to an object of s show what s wrote to it
SeenFrom(s, o) ==
    [o EXCEPT !.dirty.accounts = [k \in DOMAIN @ |-> Deref(s, @[k])],
              !.readonly.accounts = [k \in DOMAIN @ |-> Deref(s, @[k])]]

\* the instances after a call that left instance i as s
Aliased(i, s) ==
    IF Len(ms) = 1 THEN <<s>>
    ELSE IF i = 1 THEN <<s, SeenFrom(s, ms[2])>>
    ELSE <<SeenFrom(s, ms[1]), s>>

\* the kept transaction objects after a call that left an instance as s
Mutated(s, k) ==
    IF k = Nil THEN Nil
    ELSE Ptr([k[1] EXCEPT !.Account = Deref(s, AddressOfAccount(k[1]))[1]])

\* one call of apply on instance i
ApplyOn(i, tx) ==
    /\ Expected(ms[i], GetAccountAddress(tx)) < MaxNonce
    /\ \E r \in {apply(ms[i], tx, Env(i))} :
        /\ ms' = Aliased(i, r.s)
        /\ kept' = Mutated(r.s, kept)
        /\ last' = Digest(i, tx, r, ms[i])
        /\ \E t \in NextReadings(local[i], tx, r.err) :
              local' = [local EXCEPT ![i].clock = t]
    /\ UNCHANGED <<snap, cfgs>>

\* the BaseAccount transactions a caller builds once and keeps
KeptTxs ==
    {[type |-> TransactionTypeBaseAccount, Address |-> 1, Nonce |-> 0,
      Account |-> Account(0, MaxAmount, 0), obj |-> 1]}

\* the caller applies to instance i the transaction object it keeps, building
\* it first when it keeps none
ApplyKept(i) ==
    \E tx \in (IF kept = Nil THEN KeptTxs ELSE {kept[1]}) :
        /\ Expected(ms[i], GetAccountAddress(tx)) < MaxNonce
        /\ \E r \in {apply(ms[i], tx, Env(i))} :
            /\ ms' = Aliased(i, r.s)
            /\ kept' = Mutated(r.s, Ptr(tx))
            /\ last' = Digest(i, tx, r, ms[i])
        /\ UNCHANGED <<local, snap, cfgs>>

ApplyBaseAccount(i) == \E tx \in BaseAccountTxs(ms[i]) : ApplyOn(i, tx)
ApplyTransfer(i) == \E tx \in TransferTxs(ms[i]) : ApplyOn(i, tx)
ApplyBilling(i) == \E tx \in BillingTxs(ms[i]) : ApplyOn(i, tx)
ApplyProvideService(i) == \E tx \in ProvideServiceTxs(ms[i]) : ApplyOn(i, tx)
ApplyCreateDatabase(i) == \E tx \in CreateDatabaseTxs(ms[i]) : ApplyOn(i, tx)
ApplyUpdatePermission(i) == \E tx \in UpdatePermissionTxs(ms[i]) : ApplyOn(i, tx)
ApplyIssueKeys(i) == \E tx \in IssueKeysTxs(ms[i]) : ApplyOn(i, tx)
ApplyUpdateBilling(i) == \E tx \in UpdateBillingTxs(ms[i]) : ApplyOn(i, tx)

Commit(i) ==
    /\ ms' = [ms EXCEPT ![i] = commit(@)]
    /\ snap' = [snap EXCEPT ![i] = ms'[i].readonly]
    /\ last' = [op |-> "commit", on |-> i, type |-> "", err |-> OK]
    /\ UNCHANGED <<local, cfgs, kept>>

Clean(i) ==
    /\ ms' = [ms EXCEPT ![i] = clean(@)]
    /\ last' = [op |-> "clean", on |-> i, type |-> "", err |-> OK]
    /\ UNCHANGED <<local, snap, cfgs, kept>>

ChainApplyBaseAccount(i) == \E tx \in ChainBaseAccountTxs(ms[i]) : ApplyOn(i, tx)
ChainApplyTransfer(i) == \E tx \in ChainTransferTxs(ms[i]) : ApplyOn(i, tx)
ChainApplyBilling(i) == \E tx \in ChainBillingTxs(ms[i]) : ApplyOn(i, tx)

\* the account transactions with their full input sets
Next ==
    \/ ApplyBaseAccount(1)
    \/ ApplyTransfer(1)
    \/ ApplyBilling(1)
    \/ Commit(1)
    \/ Clean(1)

Spec == Init /\ [][Next]_vars

\* every transaction kind
NextChain ==
    \/ ChainApplyBaseAccount(1)
    \/ ChainApplyTransfer(1)
    \/ ChainApplyBilling(1)
    \/ ApplyProvideService(1)
    \/ ApplyCreateDatabase(1)
    \/ ApplyUpdatePermission(1)
    \/ ApplyIssueKeys(1)
    \/ ApplyUpdateBilling(1)
    \/ Commit(1)
    \/ Clean(1)

SpecChain == Init /\ [][NextChain]_vars


\* ---- the internal deletions, called directly (as the unit tests do)
DeleteAccount(i, k) ==
    /\ ms' = [ms EXCEPT ![i] = deleteAccountObject(@, k)]
    /\ last' = [op |-> "deleteAccount", on |-> i, type |-> "", err |-> OK]
    /\ UNCHANGED <<local, snap, cfgs, kept>>

DeleteSQLChain(i, k) ==
    /\ ms' = [ms EXCEPT ![i] = deleteSQLChainObject(@, k)]
    /\ last' = [op |-> "deleteSQLChain", on |-> i, type |-> "", err |-> OK]
    /\ UNCHANGED <<local, snap, cfgs, kept>>

DeleteProvider(i, k) ==
    /\ ms' = [ms EXCEPT ![i] = deleteProviderObject(@, k)]
    /\ last' = [op |-> "deleteProvider", on |-> i, type |-> "", err |-> OK]
    /\ UNCHANGED <<local, snap, cfgs, kept>>

\* the chains and providers instance i knows
KnownDBs(s) == (DOMAIN s.dirty.databases) \cup (DOMAIN s.readonly.databases)
KnownProviders(s) == (DOMAIN s.dirty.provider) \cup (DOMAIN s.readonly.provider)

\* inputs of the specification of the direct deletions
OverlayProvideServiceTxs(s) ==
    {[type |-> TransactionTypeProvideService, Signee |-> 2, Nonce |-> n,
      Space |-> 1, Memory |-> 1, LoadAvgPerCPU |-> 1, TargetUser |-> 1,
      GasPrice |-> 1, NodeID |-> 2] : n \in NonceInputs(s, PubKeyHash(2))}

OverlayCreateDatabaseTxs(s) ==
    {[type |-> TransactionTypeCreateDatabase, Owner |-> 1, Signee |-> 1, Nonce |-> n,
      TargetMiners |-> tm, GasPrice |-> 1, AdvancePayment |-> 1, TokenType |-> Particle] :
        tm \in {<<>>, <<2>>}, n \in NonceInputs(s, 1)}

OverlayProvideService(i) == \E tx \in OverlayProvideServiceTxs(ms[i]) : ApplyOn(i, tx)
OverlayCreateDatabase(i) == \E tx \in OverlayCreateDatabaseTxs(ms[i]) : ApplyOn(i, tx)

\* the deletion markers of a dirty index
Markers(d) ==
    {k \in DOMAIN d.accounts : d.accounts[k] = Nil}
        \cup {k \in DOMAIN d.databases : d.databases[k] = Nil}
        \cup {k \in DOMAIN d.provider : d.provider[k] = Nil}

\* a direct deletion is made only into an overlay that holds no marker yet
NextOverlay ==
    \/ ChainApplyBaseAccount(1)
    \/ OverlayProvideService(1)
    \/ OverlayCreateDatabase(1)
    \/ Commit(1)
    \/ Clean(1)
    \/ \E k \in KeyAddrs : Markers(ms[1].dirty) = {} /\ DeleteAccount(1, k)
    \/ \E k \in KnownDBs(ms[1]) : Markers(ms[1].dirty) = {} /\ DeleteSQLChain(1, k)
    \/ \E k \in KnownProviders(ms[1]) : Markers(ms[1].dirty) = {} /\ DeleteProvider(1, k)

SpecOverlay == Init /\ [][NextOverlay]_vars

\* ---- makeCopy: a second meta-state in the same process
MakeCopy ==
    /\ Len(ms) = 1
    /\ ms' = Append(ms, makeCopy(ms[1]))
    /\ local' = Append(local, local[1])
    /\ snap' = Append(snap, ms'[2].readonly)
    /\ last' = [op |-> "makeCopy", on |-> 1, type |-> "", err |-> OK]
    /\ UNCHANGED <<cfgs, kept>>

\* the other account is created by a transaction that is applied once
CopyBaseAccount(i) ==
    \E tx \in {b \in ChainBaseAccountTxs(ms[i]) : b.Address # 1} : ApplyOn(i, tx)

\* the transfers of the account that the kept transaction creates
CopyTransfer(i) ==
    \E tx \in {x \in ChainTransferTxs(ms[i]) : x.Sender = 1 /\ x.Signee = 1} : ApplyOn(i, tx)

NextCopy ==
    \/ MakeCopy
    \/ \E i \in Instances : ApplyKept(i)
    \/ \E i \in Instances : CopyBaseAccount(i)
    \/ \E i \in Instances : CopyTransfer(i)
    \/ \E i \in Instances : Commit(i)
    \/ \E i \in Instances : Clean(i)

SpecCopy == Init /\ [][NextCopy]_vars

\* ---- two replicas, each in its own process, fed the same transactions
InitReplicas ==
    /\ ms = <<newMetaState, newMetaState>>
    /\ \E t \in Times : local = <<LocalProcess(1, 1), LocalProcess(2, t)>>
    /\ snap = <<newMetaIndex, newMetaIndex>>
    /\ last = NoCall
    /\ kept = Nil
    /\ cfgs = NoConfigurations

ApplyBoth(tx) ==
    /\ Expected(ms[1], GetAccountAddress(tx)) < MaxNonce
    /\ \E r1 \in {apply(ms[1], tx, Env(1))}, r2 \in {apply(ms[2], tx, Env(2))} :
        /\ ms' = <<r1.s, r2.s>>
        /\ last' = Digest(0, tx, r1, ms[1])
        /\ \E t1 \in NextReadings(local[1], tx, r1.err),
              t2 \in NextReadings(local[2], tx, r2.err) :
              local' = [local EXCEPT ![1].clock = t1, ![2].clock = t2]
    /\ UNCHANGED <<snap, cfgs, kept>>

CommitBoth ==
    /\ ms' = <<commit(ms[1]), commit(ms[2])>>
    /\ snap' = <<ms'[1].readonly, ms'[2].readonly>>
    /\ last' = [op |-> "commit", on |-> 0, type |-> "", err |-> OK]
    /\ UNCHANGED <<local, cfgs, kept>>

ReplicaBaseAccount == \E tx \in ChainBaseAccountTxs(ms[1]) : ApplyBoth(tx)
ReplicaTransfer == \E tx \in ChainTransferTxs(ms[1]) : ApplyBoth(tx)
ReplicaProvideService == \E tx \in ProvideServiceTxs(ms[1]) : ApplyBoth(tx)
ReplicaCreateDatabase == \E tx \in CreateDatabaseTxs(ms[1]) : ApplyBoth(tx)
ReplicaUpdatePermission == \E tx \in UpdatePermissionTxs(ms[1]) : ApplyBoth(tx)

NextReplicas ==
    \/ ReplicaBaseAccount
    \/ ReplicaTransfer
    \/ ReplicaProvideService
    \/ ReplicaCreateDatabase
    \/ ReplicaUpdatePermission
    \/ CommitBoth

SpecReplicas == InitReplicas /\ [][NextReplicas]_vars

\* ---- one instance in a process whose key store or encoder may fail
InitKeyStore ==
    /\ ms = <<newMetaState>>
    /\ \E f \in Failures \cup {NoFailure} : local = <<FailingProcess(1, 1, f)>>
    /\ snap = <<newMetaIndex>>
    /\ last = NoCall
    /\ kept = Nil
    /\ cfgs = NoConfigurations

NextKeyStore ==
    \/ ChainApplyBaseAccount(1)
    \/ ApplyProvideService(1)
    \/ ApplyCreateDatabase(1)
    \/ Commit(1)

SpecKeyStore == InitKeyStore /\ [][NextKeyStore]_vars

\* a CreateDatabase has just failed on the key store or the encoder after the
\* owner was debited: the debit stays in dirty and no chain exists
KeyStoreFailureReached ==
    /\ last.type = TransactionTypeCreateDatabase
    /\ last.err \in {ErrOf(f) : f \in Failures}
    /\ Has(ms[1].dirty.accounts, 1)
    /\ ms[1].dirty.accounts[1][1].TokenBalance[Particle] < MaxAmount
    /\ ms[1].dirty.databases = newMetaIndex.databases

\* ------------------------------------------------------------------ claims
\* every transaction the specification of all kinds offers in state s
AllChainTxs(s) ==
    ChainBaseAccountTxs(s) \cup ChainTransferTxs(s) \cup ChainBillingTxs(s)
        \cup ProvideServiceTxs(s) \cup CreateDatabaseTxs(s) \cup UpdatePermissionTxs(s)
        \cup IssueKeysTxs(s) \cup UpdateBillingTxs(s)

\* the account transactions with their full input sets
AllAccountTxs(s) == BaseAccountTxs(s) \cup TransferTxs(s) \cup BillingTxs(s)

\* C1: nonce gate.  In every reachable state, for every transaction of every
\* kind whose sender account exists: if the nonce of the transaction differs
\* from next_nonce(sender), apply fails with InvalidAccountNonce and leaves
\* the whole overlay (dirty and readonly) as it was.
C1_NonceGate ==
    \A tx \in AllChainTxs(ms[1]) :
        LET s == ms[1]
            addr == GetAccountAddress(tx)
            r == apply(s, tx, Env(1))
        IN (loadAccountObject(s, addr).loaded /\ GetAccountNonce(tx) # nextNonce(s, addr).nonce)
            => (r.err = ErrInvalidAccountNonce /\ r.s = s)

\* a call has just been refused in a state with uncommitted changes, where a
\* Transfer of an existing sender with a wrong nonce is rejected by the nonce
\* gate (for a sender that does not exist the error is AccountNotFound)
C1_Witness ==
    /\ last.op = "apply"
    /\ last.err = Refused
    /\ ms[1].dirty.accounts # EmptyMap
    /\ \E tx \in ChainTransferTxs(ms[1]) :
          /\ loadAccountObject(ms[1], tx.Sender).loaded
          /\ tx.Nonce # nextNonce(ms[1], tx.Sender).nonce
          /\ apply(ms[1], tx, Env(1)) = [s |-> ms[1], err |-> ErrInvalidAccountNonce]


\* the expected nonce of addr: next_nonce, 0 for an account that does not
\* exist ("Consider the first nonce 0")
ExpectedNonce(s, addr) == IF nextNonce(s, addr).err = OK THEN nextNonce(s, addr).nonce ELSE 0

\* C2: next_nonce(addr) increases by exactly 1 each time apply accepts a
\* transaction whose sender is addr, is unchanged by every apply that returns
\* an error, and is unchanged by accepted transactions of other senders.
C2_NonceStep ==
    \A tx \in AllAccountTxs(ms[1]) :
        LET s == ms[1]
            addr == GetAccountAddress(tx)
            r == apply(s, tx, Env(1))
        IN IF r.err = OK
           THEN /\ ExpectedNonce(r.s, addr) = ExpectedNonce(s, addr) + 1
                /\ \A a \in Addrs \ {addr} : ExpectedNonce(r.s, a) = ExpectedNonce(s, a)
           ELSE \A a \in Addrs : ExpectedNonce(r.s, a) = ExpectedNonce(s, a)

\* C4: if apply(tx) returns an error, the dirty overlay after the call equals
\* the dirty overlay before the call, including which keys are present.
C4_ErrorLeavesDirty ==
    \A tx \in AllAccountTxs(ms[1]) :
        LET r == apply(ms[1], tx, Env(1))
        IN (r.err # OK /\ r.err # Panic) => r.s.dirty = ms[1].dirty

\* the result of every keyed load for every key
Loads(s) ==
    [stable |-> [a \in Addrs |-> loadAccountStableBalance(s, a)],
     covenant |-> [a \in Addrs |-> loadAccountCovenantBalance(s, a)],
     account |-> [a \in Addrs |-> [loadAccountObject(s, a) EXCEPT !.o = Copy(@)]],
     sqlchain |-> [id \in DBIDs |-> loadSQLChainObject(s, id)],
     provider |-> [a \in Addrs |-> loadProviderObject(s, a)]]

\* the result of every read query for every key
Reads(s) == [loads |-> Loads(s), nonce |-> [a \in Addrs |-> nextNonce(s, a)]]

\* C6: rollback.  After clean(), every read query returns what it returned
\* right after the most recent commit().
C6_Rollback ==
    last.op = "clean" =>
        Reads(ms[1]) = Reads([dirty |-> newMetaIndex, readonly |-> snap[1]])

\* C7: copy-on-write.  No apply call changes the contents of any object
\* stored in readonly.
C7_CopyOnWrite ==
    \A tx \in AllAccountTxs(ms[1]) : apply(ms[1], tx, Env(1)).s.readonly = ms[1].readonly

\* C10: sender authentication.  A Transfer whose signee does not hash to its
\* sender, or a CreateDatabase whose signee does not hash to its owner, that
\* reaches its handler (the sender exists and the nonce is the expected one)
\* is rejected with InvalidSender and changes nothing.
C10_SenderAuth ==
    \A tx \in ChainTransferTxs(ms[1]) \cup CreateDatabaseTxs(ms[1]) :
        LET s == ms[1]
            addr == GetAccountAddress(tx)
            r == apply(s, tx, Env(1))
        IN (/\ PubKeyHash(tx.Signee) # addr
            /\ nextNonce(s, addr).err = OK
            /\ nextNonce(s, addr).nonce = GetAccountNonce(tx))
            => (r.err = ErrInvalidSender /\ r.s = s)


\* C3: determinism across replicas.  Two replicas, each with its own node
\* identity, key and clock, that start from equal state and apply the same
\* transactions hold identical state (every field of every profile included).
C3_Determinism == ms[1] = ms[2]

\* what commit must leave in one readonly map, key by key
FoldOK(ro, d, out, keys) ==
    \A k \in keys :
        IF Has(d, k) /\ d[k] # Nil THEN Has(out, k) /\ out[k] = d[k]
        ELSE IF Has(d, k) THEN ~Has(out, k)
        ELSE Has(out, k) = Has(ro, k) /\ (Has(ro, k) => out[k] = ro[k])

\* C5: after commit() dirty is empty; readonly holds the dirty value where
\* dirty had a non-null entry, nothing where dirty had a null marker and its
\* previous value elsewhere; every keyed load returns after commit() what it
\* returned before it.
C5_Commit ==
    LET s == ms[1]
        c == commit(s)
    IN /\ c.dirty = newMetaIndex
       /\ FoldOK(s.readonly.accounts, s.dirty.accounts, c.readonly.accounts, Addrs)
       /\ FoldOK(s.readonly.databases, s.dirty.databases, c.readonly.databases, DBIDs)
       /\ FoldOK(s.readonly.provider, s.dirty.provider, c.readonly.provider, Addrs)
       /\ Loads(c) = Loads(s)

\* C8: lookup rule.  While dirty holds a deletion marker for k, every keyed
\* read of k reports k absent, whatever readonly holds; and while dirty holds
\* a non-null entry for k, that entry is the one returned.
C8_LookupRule ==
    LET s == ms[1] IN
    /\ \A k \in Addrs :
        /\ (Has(s.dirty.accounts, k) /\ s.dirty.accounts[k] = Nil) =>
              /\ ~loadAccountObject(s, k).loaded
              /\ ~loadAccountStableBalance(s, k).loaded
              /\ ~loadAccountCovenantBalance(s, k).loaded
              /\ ~loadOrStoreAccountObject(s, k, Ptr(EmptyAccount)).loaded
        /\ (Has(s.dirty.accounts, k) /\ s.dirty.accounts[k] # Nil) =>
              /\ loadAccountObject(s, k).o = s.dirty.accounts[k]
              /\ loadOrStoreAccountObject(s, k, Ptr(EmptyAccount)).o = s.dirty.accounts[k]
        /\ (Has(s.dirty.provider, k) /\ s.dirty.provider[k] = Nil) =>
              /\ ~loadProviderObject(s, k).loaded
              /\ ~loadOrStoreProviderObject(s, k, Nil).loaded
        /\ (Has(s.dirty.provider, k) /\ s.dirty.provider[k] # Nil) =>
              /\ loadProviderObject(s, k).o = s.dirty.provider[k]
              /\ loadOrStoreProviderObject(s, k, Nil).o = s.dirty.provider[k]
    /\ \A id \in DBIDs :
        /\ (Has(s.dirty.databases, id) /\ s.dirty.databases[id] = Nil) =>
              /\ ~loadSQLChainObject(s, id).loaded
              /\ ~loadOrStoreSQLChainObject(s, id, Nil).loaded
        /\ (Has(s.dirty.databases, id) /\ s.dirty.databases[id] # Nil) =>
              /\ loadSQLChainObject(s, id).o = s.dirty.databases[id]
              /\ loadOrStoreSQLChainObject(s, id, Nil).o = s.dirty.databases[id]

\* C9: makeCopy.  The copy starts with an empty dirty overlay and reads equal
\* to the committed state of the original; afterwards no apply, commit or
\* clean on one of the two changes the result of any read on the other.
C9_MakeCopy ==
    [][ /\ last'.op = "makeCopy" =>
              /\ ms'[2].dirty = newMetaIndex
              /\ Reads(ms'[2]) = Reads([dirty |-> newMetaIndex, readonly |-> ms[1].readonly])
              /\ Reads(ms'[1]) = Reads(ms[1])
        /\ (Len(ms) = 2 /\ last'.op \in {"apply", "commit", "clean"}) =>
              \A j \in {1, 2} : j # last'.on => Reads(ms'[j]) = Reads(ms[j])
      ]_vars

\* a copy was just made of an original that holds both committed accounts
\* and uncommitted changes
C9_Witness ==
    /\ last.op = "makeCopy"
    /\ Len(ms) = 2
    /\ ms[1].readonly.accounts # EmptyMap
    /\ ms[1].dirty.accounts # EmptyMap
    /\ ms[1].dirty.accounts # ms[1].readonly.accounts


\* ---- a chain whose users include the address of the chain itself
DepositCreateDatabaseTxs(s) ==
    {[type |-> TransactionTypeCreateDatabase, Owner |-> 1, Signee |-> 1, Nonce |-> n,
      TargetMiners |-> tm, GasPrice |-> 1, AdvancePayment |-> 1, TokenType |-> Particle] :
        tm \in {<<>>, <<2>>}, n \in NonceInputs(s, 1)}

DepositUpdatePermissionTxs(s) ==
    UNION {{[type |-> TransactionTypeUpdatePermission, Signee |-> 1, Nonce |-> n,
             TargetSQLChain |-> c, TargetUser |-> u, Permission |-> perm] :
              u \in {2, c}, perm \in {Admin, Read},
              n \in NonceInputs(s, 1)} : c \in ChainInputs(s) \ {HashBase}}

DepositTransferTxs(s) ==
    UNION {{[type |-> TransactionTypeTransfer, Sender |-> a, Receiver |-> 2, Signee |-> k,
             Amount |-> amt, TokenType |-> tt, Nonce |-> n] :
              k \in Keys, amt \in {1, MaxAmount}, tt \in TokenTypes,
              n \in NonceInputs(s, a)} : a \in ChainSenders(s)}

DepositCreateDatabase(i) == \E tx \in DepositCreateDatabaseTxs(ms[i]) : ApplyOn(i, tx)
DepositUpdatePermission(i) == \E tx \in DepositUpdatePermissionTxs(ms[i]) : ApplyOn(i, tx)
DepositTransfer(i) == \E tx \in DepositTransferTxs(ms[i]) : ApplyOn(i, tx)

NextDeposit ==
    \/ ChainApplyBaseAccount(1)
    \/ OverlayProvideService(1)
    \/ DepositCreateDatabase(1)
    \/ DepositUpdatePermission(1)
    \/ DepositTransfer(1)
    \/ Commit(1)

SpecDeposit == Init /\ [][NextDeposit]_vars

\* the sum of one token's balances over all accounts visible through the overlay
SumBalances(s, tt) ==
    LET RECURSIVE Go(_)
        Go(S) == IF S = {} THEN 0
                 ELSE LET a == CHOOSE x \in S : TRUE
                      IN loadAccountBalance(s, a, tt).b + Go(S \ {a})
    IN Go(Addrs)

\* C11: token conservation.  For every Transfer that apply accepts with
\* sender # receiver, the sum of each token's balances over all accounts is
\* the same after the call as before it.
C11_Conservation ==
    \A tx \in TransferTxs(ms[1]) :
        LET r == apply(ms[1], tx, Env(1))
        IN (r.err = OK /\ tx.Sender # tx.Receiver) =>
              \A tt \in TokenTypes : SumBalances(r.s, tt) = SumBalances(ms[1], tt)

\* a Transfer has just been accepted, and the state offers an accepted Transfer
\* of a positive amount between two different accounts
C11_Witness ==
    /\ last.op = "apply" /\ last.type = TransactionTypeTransfer /\ last.err = OK
    /\ \E tx \in TransferTxs(ms[1]) :
          /\ tx.Sender # tx.Receiver /\ tx.Amount > 0
          /\ apply(ms[1], tx, Env(1)).err = OK
          /\ loadAccountObject(ms[1], tx.Receiver).loaded

\* the balance of one token as an accepted Transfer must leave it
TransferEffect(s, r, tx) ==
    LET tt == tx.TokenType
        other == IF tt = Particle THEN Wave ELSE Particle
        before(a, x) == loadAccountBalance(s, a, x).b
        after(a, x) == loadAccountBalance(r.s, a, x).b
    IN /\ after(tx.Sender, tt) = before(tx.Sender, tt) - tx.Amount
       /\ after(tx.Receiver, tt) = before(tx.Receiver, tt) + tx.Amount
       /\ after(tx.Sender, other) = before(tx.Sender, other)
       /\ after(tx.Receiver, other) = before(tx.Receiver, other)
       /\ loadAccountObject(r.s, tx.Receiver).loaded
       /\ ~loadAccountObject(s, tx.Receiver).loaded =>
             loadAccountObject(r.s, tx.Receiver).o[1].NextNonce = 0

\* C12: effect of an accepted Transfer.  Whenever apply accepts a Transfer with
\* sender # receiver and amount > 0, the sender's balance of the token is lower
\* by the amount, the receiver's is higher by the amount (the receiver created
\* with zero balances and nonce 0 if it did not exist), and the other token's
\* balance of both accounts is unchanged.
C12_TransferEffect ==
    \A tx \in DepositTransferTxs(ms[1]) :
        LET r == apply(ms[1], tx, Env(1))
        IN (r.err = OK /\ tx.Sender # tx.Receiver /\ tx.Amount > 0) =>
              TransferEffect(ms[1], r, tx)


\* the error miner m raises in the resolution loop of a CreateDatabase
MinerError(s, m, sender, gasPrice) ==
    LET l == loadProviderObject(s, m) IN
    IF ~l.loaded THEN ErrNoSuchMiner
    ELSE IF l.o[1].TargetUser # sender THEN ErrMinerUserNotMatch
    ELSE IF l.o[1].GasPrice > gasPrice THEN ErrGasPriceMismatch
    ELSE OK

\* the CreateDatabase reaches the miner resolution: the nonce gate, the sender
\* check, the gas-price check and the advance-payment check have passed
ReachesResolution(s, tx) ==
    /\ nextNonce(s, tx.Owner).err = OK
    /\ nextNonce(s, tx.Owner).nonce = tx.Nonce
    /\ PubKeyHash(tx.Signee) = tx.Owner
    /\ tx.GasPrice > 0
    /\ tx.AdvancePayment >= minDeposit(tx.GasPrice, Len(tx.TargetMiners))

\* the CreateDatabase passes the nonce gate of apply
PassesNonceGate(s, tx) ==
    /\ nextNonce(s, tx.Owner).err = OK
    /\ nextNonce(s, tx.Owner).nonce = tx.Nonce

\* C13 as stated: every CreateDatabase (past the nonce gate of apply) naming a
\* miner with no loadable offer, with an offer for another user or with a
\* higher gas price fails with the error of the first such miner, whatever
\* its signee, gas price and advance payment, and changes nothing.
C13_AsStated ==
    \A tx \in CreateDatabaseTxs(ms[1]) :
        LET s == ms[1]
            r == apply(s, tx, Env(1))
            tm == tx.TargetMiners
            bad == {i \in 1 .. Len(tm) : MinerError(s, tm[i], tx.Owner, tx.GasPrice) # OK}
            first == CHOOSE i \in bad : \A j \in bad : i <= j
        IN (PassesNonceGate(s, tx) /\ bad # {}) =>
              /\ r.err = MinerError(s, tm[first], tx.Owner, tx.GasPrice)
              /\ r.s = s

\* C13: miner-resolution atomicity.  A CreateDatabase that reaches the miner
\* resolution (nonce gate passed, signee is the owner, gas price above 0,
\* advance payment at least the minimum deposit) and names a miner with no
\* loadable offer (NoSuchMiner), with an offer for another user
\* (MinerUserNotMatch) or with a higher gas price (GasPriceMismatch) fails
\* with the error of the first such miner in list order and changes nothing:
\* balances, provider profiles and databases.
C13_MinerResolution ==
    \A tx \in CreateDatabaseTxs(ms[1]) :
        LET s == ms[1]
            r == apply(s, tx, Env(1))
            tm == tx.TargetMiners
            bad == {i \in 1 .. Len(tm) : MinerError(s, tm[i], tx.Owner, tx.GasPrice) # OK}
            first == CHOOSE i \in bad : \A j \in bad : i <= j
        IN (ReachesResolution(s, tx) /\ bad # {}) =>
              /\ r.err = MinerError(s, tm[first], tx.Owner, tx.GasPrice)
              /\ r.s = s

\* a call has just been refused in a state where a CreateDatabase naming
\* [2, 1] reaches the miner resolution and fails with NoSuchMiner on the second
\* miner while the offer of the first one, which passes, stays loadable
C13_Witness ==
    /\ last.op = "apply" /\ last.err = Refused
    /\ \E tx \in CreateDatabaseTxs(ms[1]) :
          /\ tx.TargetMiners = <<2, 1>>
          /\ ReachesResolution(ms[1], tx)
          /\ MinerError(ms[1], 2, tx.Owner, tx.GasPrice) = OK
          /\ MinerError(ms[1], 1, tx.Owner, tx.GasPrice) = ErrNoSuchMiner
          /\ apply(ms[1], tx, Env(1)) = [s |-> ms[1], err |-> ErrNoSuchMiner]


\* min_advance = gas_price x QPS x update_period x |target_miners|
MinAdvance(tx) == tx.GasPrice * QPS * UpdatePeriod * Len(tx.TargetMiners)

\* the chain a CreateDatabase creates
NewChainID(tx) == FromAccountAndNonce(tx.Owner, tx.Nonce)

\* CreateDatabase transactions of the owner that name the offer of miner 2
\* twice, with a gas price up to half the range of uint64
TwoMinerTxs(s) ==
    {[type |-> TransactionTypeCreateDatabase, Owner |-> 1, Signee |-> 1, Nonce |-> n,
      TargetMiners |-> <<2, 2>>, GasPrice |-> gp, AdvancePayment |-> ap,
      TokenType |-> Particle] :
        gp \in {1, Mod \div 2}, ap \in {0, 1, MaxAmount}, n \in NonceInputs(s, 1)}

\* C14: CreateDatabase value transfer.  Every accepted CreateDatabase debits
\* the owner's balance of tx.token_type by min_advance + advance_payment; the
\* created chain has exactly one user, the owner, with Admin, Normal,
\* deposit = min_advance and advance_payment = tx.advance_payment.  A
\* CreateDatabase of an owner whose balance is smaller fails and creates no chain.
C14_ValueTransfer ==
    \A tx \in CreateDatabaseTxs(ms[1]) \cup TwoMinerTxs(ms[1]) :
        LET s == ms[1]
            r == apply(s, tx, Env(1))
            before == loadAccountBalance(s, tx.Owner, tx.TokenType).b
            after == loadAccountBalance(r.s, tx.Owner, tx.TokenType).b
            chain == loadSQLChainObject(r.s, NewChainID(tx))
        IN /\ r.err = OK =>
                /\ after = before - (MinAdvance(tx) + tx.AdvancePayment)
                /\ chain.loaded
                /\ chain.o[1].Users =
                      << [Address |-> tx.Owner, Permission |-> Admin, Status |-> Normal,
                          Deposit |-> MinAdvance(tx),
                          AdvancePayment |-> tx.AdvancePayment] >>
           /\ (ReachesResolution(s, tx) /\ before < MinAdvance(tx) + tx.AdvancePayment) =>
                /\ r.err # OK
                /\ ~chain.loaded


\* the addresses of the miners of a chain profile, in order
MinerAddresses(profile) == [i \in 1 .. Len(profile.Miners) |-> profile.Miners[i].Address]

\* the miners of the list tm, by index, that the resolution of tx rejects in s
Rejected(s, tx) ==
    {i \in 1 .. Len(tx.TargetMiners) :
        MinerError(s, tx.TargetMiners[i], tx.Owner, tx.GasPrice) # OK}

\* the outcome r of the CreateDatabase tx applied to s consumes its offers:
\* the miners of the new chain are the target miners in their order, and each
\* of them, loadable before, is absent after it, before and after commit
Consumes(s, tx, r) ==
    LET tm == tx.TargetMiners
        chain == loadSQLChainObject(r.s, NewChainID(tx))
    IN /\ chain.loaded /\ MinerAddresses(chain.o[1]) = tm
       /\ \A i \in 1 .. Len(tm) :
             /\ loadProviderObject(s, tm[i]).loaded
             /\ ~loadProviderObject(r.s, tm[i]).loaded
             /\ ~loadProviderObject(commit(r.s), tm[i]).loaded

\* applying a transaction tx of the given set to s makes no absent offer
\* loadable, unless tx is an accepted ProvideService
OnlyProvideServiceOffers(s, txs) ==
    \A tx \in txs :
        Bind(apply(s, tx, Env(1)), LAMBDA r :
           \A m \in KeyAddrs :
              (~loadProviderObject(s, m).loaded /\ loadProviderObject(r.s, m).loaded) =>
                  (tx.type = TransactionTypeProvideService /\ r.err = OK))

\* C15 as stated: an accepted CreateDatabase consumes its offers; every later
\* CreateDatabase (past the nonce gate) naming an absent miner fails with
\* NoSuchMiner; and nothing but an accepted ProvideService, neither another
\* transaction nor commit nor clean, makes an absent offer loadable.
C15_AsStated ==
    /\ \A tx \in CreateDatabaseTxs(ms[1]) :
          Bind(apply(ms[1], tx, Env(1)), LAMBDA r :
             /\ r.err = OK => Consumes(ms[1], tx, r)
             /\ (PassesNonceGate(ms[1], tx)
                    /\ \E i \in 1 .. Len(tx.TargetMiners) :
                          ~loadProviderObject(ms[1], tx.TargetMiners[i]).loaded) =>
                   r.err = ErrNoSuchMiner)
    /\ OnlyProvideServiceOffers(ms[1], AllChainTxs(ms[1]))
    /\ \A m \in KeyAddrs :
          /\ loadProviderObject(commit(ms[1]), m).loaded = loadProviderObject(ms[1], m).loaded
          /\ loadProviderObject(clean(ms[1]), m).loaded => loadProviderObject(ms[1], m).loaded

\* C15: provider lifecycle.  An accepted CreateDatabase with target miners
\* [m1..mk] creates a chain whose miners are [m1..mk] in that order, and every
\* mi, loadable before, is absent for load_provider_object after it, before
\* and after commit.  A later CreateDatabase (past the nonce gate) naming an
\* absent miner is never accepted and changes nothing; when it reaches the
\* miner resolution it fails with the error of the first miner of its list
\* that the resolution rejects, which is NoSuchMiner when that miner is the
\* absent one.  No transaction other than an accepted ProvideService makes
\* an absent offer loadable and commit keeps it absent; clean makes loadable
\* again exactly the offers that the committed state holds, and discards
\* with the deletion the chain of the uncommitted CreateDatabase that made it.
C15_ProviderLifecycle ==
    /\ \A tx \in CreateDatabaseTxs(ms[1]) :
          Bind(apply(ms[1], tx, Env(1)), LAMBDA r :
             LET s == ms[1]
                 tm == tx.TargetMiners
                 bad == Rejected(s, tx)
                 first == CHOOSE i \in bad : \A j \in bad : i <= j
             IN /\ r.err = OK => Consumes(s, tx, r)
                /\ (PassesNonceGate(s, tx)
                       /\ \E i \in 1 .. Len(tm) : ~loadProviderObject(s, tm[i]).loaded) =>
                      /\ r.err # OK /\ r.s = s
                      /\ ReachesResolution(s, tx) =>
                            /\ r.err = MinerError(s, tm[first], tx.Owner, tx.GasPrice)
                            /\ ~loadProviderObject(s, tm[first]).loaded =>
                                  r.err = ErrNoSuchMiner)
    /\ OnlyProvideServiceOffers(ms[1], AllChainTxs(ms[1]))
    /\ \A m \in KeyAddrs :
          /\ loadProviderObject(commit(ms[1]), m).loaded = loadProviderObject(ms[1], m).loaded
          /\ loadProviderObject(clean(ms[1]), m).loaded = Has(ms[1].readonly.provider, m)
    /\ \A id \in DBIDs :
          loadSQLChainObject(clean(ms[1]), id).loaded = Has(ms[1].readonly.databases, id)

\* a CreateDatabase has just consumed the committed offer of miner 2: dirty
\* holds the deletion marker while readonly still holds the profile
C15_Witness ==
    /\ last.op = "apply" /\ last.type = TransactionTypeCreateDatabase /\ last.err = OK
    /\ Has(ms[1].readonly.provider, 2)
    /\ Has(ms[1].dirty.provider, 2) /\ ms[1].dirty.provider[2] = Nil
    /\ \E id \in DBIDs : loadSQLChainObject(ms[1], id).loaded
                            /\ MinerAddresses(loadSQLChainObject(ms[1], id).o[1]) = <<2>>


\* the UpdatePermission passes the nonce gate of apply and names a chain that
\* the overlay can load
ReachesPermission(s, tx) ==
    /\ nextNonce(s, PubKeyHash(tx.Signee)).err = OK
    /\ nextNonce(s, PubKeyHash(tx.Signee)).nonce = tx.Nonce
    /\ loadSQLChainObject(s, DatabaseID(tx.TargetSQLChain)).loaded

\* the sender of the UpdatePermission is no Admin user of the target chain as
\* the overlay shows it, uncommitted changes included
SenderNotAdmin(s, tx) ==
    ~IsAdmin(loadSQLChainObject(s, DatabaseID(tx.TargetSQLChain)).o[1].Users, PubKeyHash(tx.Signee))

\* the outcome r of the UpdatePermission leaves the profile of its target as it was
ProfileUnchanged(s, r, tx) ==
    loadSQLChainObject(r.s, DatabaseID(tx.TargetSQLChain))
        = loadSQLChainObject(s, DatabaseID(tx.TargetSQLChain))

\* C16 as stated: every UpdatePermission of a sender that is not an Admin of
\* the target chain (and is not the target user) fails with
\* AccountPermissionDeny, whatever permission it asks for.
C16_AsStated ==
    \A tx \in UpdatePermissionTxs(ms[1]) :
        LET s == ms[1]
            r == apply(s, tx, Env(1))
        IN (ReachesPermission(s, tx) /\ PubKeyHash(tx.Signee) # tx.TargetUser
                /\ SenderNotAdmin(s, tx))
            => (r.err = ErrAccountPermissionDeny /\ ProfileUnchanged(s, r, tx))

\* the UpdatePermission passes the nonce gate of apply
PassesPermissionGate(s, tx) ==
    /\ nextNonce(s, PubKeyHash(tx.Signee)).err = OK
    /\ nextNonce(s, PubKeyHash(tx.Signee)).nonce = tx.Nonce

\* C16: UpdatePermission authorization, in the order of the checks.  An
\* UpdatePermission (past the nonce gate) whose sender equals target_user
\* fails with InvalidSender, whether its target chain exists or not.  One
\* whose sender differs from target_user, that names an existing chain and
\* whose sender is not an Admin user of that chain in the current overlay
\* state fails with InvalidPermission when it asks for a permission not
\* below NumberOfUserPermission and with AccountPermissionDeny otherwise.
\* In all these cases the meta-state, the chain profile included, is unchanged.
C16_Authorization ==
    \A tx \in UpdatePermissionTxs(ms[1]) :
        LET s == ms[1]
            r == apply(s, tx, Env(1))
            sender == PubKeyHash(tx.Signee)
        IN PassesPermissionGate(s, tx) =>
            /\ sender = tx.TargetUser =>
                  (r.err = ErrInvalidSender /\ r.s = s /\ ProfileUnchanged(s, r, tx))
            /\ (sender # tx.TargetUser /\ ReachesPermission(s, tx) /\ SenderNotAdmin(s, tx)) =>
                  /\ r.err = IF tx.Permission >= NumberOfUserPermission
                             THEN ErrInvalidPermission
                             ELSE ErrAccountPermissionDeny
                  /\ r.s = s /\ ProfileUnchanged(s, r, tx)

\* the owner of a chain, its first user, has lost the Admin permission and an
\* UpdatePermission of that owner has just been refused
C16_Witness ==
    /\ last.op = "apply" /\ last.err = Refused
    /\ \E tx \in UpdatePermissionTxs(ms[1]) :
          LET l == loadSQLChainObject(ms[1], DatabaseID(tx.TargetSQLChain)) IN
          /\ ReachesPermission(ms[1], tx)
          /\ l.o[1].Users[1].Address = PubKeyHash(tx.Signee)
          /\ l.o[1].Users[1].Permission # Admin
          /\ apply(ms[1], tx, Env(1)).err = ErrAccountPermissionDeny


\* every chain profile a map of the overlay holds
Profiles(m) == {m[id][1] : id \in {d \in DOMAIN m : m[d] # Nil}}

\* C17: admin non-emptiness.  After CreateDatabase and any sequence of
\* applied transactions (accepted or rejected), commits and rollbacks, every
\* chain profile, uncommitted or committed, has a user with Admin permission.
C17_AdminNonEmpty ==
    \A so \in Profiles(ms[1].dirty.databases) \cup Profiles(ms[1].readonly.databases) :
        \E i \in 1 .. Len(so.Users) : so.Users[i].Permission = Admin

\* a committed chain whose creator is no Admin any more: another user was
\* made Admin and took the permission from the creator
C17_Witness ==
    \E so \in Profiles(ms[1].readonly.databases) :
        /\ Len(so.Users) >= 2
        /\ so.Users[1].Permission # Admin
        /\ so.Users[2].Permission = Admin


\* no two entries of users carry the same address
UniqueUsers(users) ==
    \A i, j \in 1 .. Len(users) : users[i].Address = users[j].Address => i = j

\* C18: user uniqueness under UpdatePermission.  No chain profile, uncommitted
\* or committed, has two user entries with the same address; an accepted
\* UpdatePermission for an address already in users changes the permission of
\* that entry and nothing else of the profile (deposit, advance payment,
\* status, position and every other entry stay), and for a new address it
\* appends exactly one entry {target_user, permission, Normal} at the end.
C18_UserUniqueness ==
    /\ \A so \in Profiles(ms[1].dirty.databases) \cup Profiles(ms[1].readonly.databases) :
          UniqueUsers(so.Users)
    /\ \A tx \in UpdatePermissionTxs(ms[1]) :
          LET s == ms[1]
              r == apply(s, tx, Env(1))
              id == DatabaseID(tx.TargetSQLChain)
              old == loadSQLChainObject(s, id).o[1]
              new == loadSQLChainObject(r.s, id).o[1]
              at == {i \in 1 .. Len(old.Users) : old.Users[i].Address = tx.TargetUser}
          IN r.err = OK =>
                /\ [new EXCEPT !.Users = old.Users] = old
                /\ at # {} =>
                      /\ Len(new.Users) = Len(old.Users)
                      /\ \A i \in 1 .. Len(old.Users) :
                            IF i \in at
                            THEN new.Users[i] = [old.Users[i] EXCEPT !.Permission = tx.Permission]
                            ELSE new.Users[i] = old.Users[i]
                /\ at = {} =>
                      /\ Len(new.Users) = Len(old.Users) + 1
                      /\ SubSeq(new.Users, 1, Len(old.Users)) = old.Users
                      /\ new.Users[Len(new.Users)].Address = tx.TargetUser
                      /\ new.Users[Len(new.Users)].Permission = tx.Permission
                      /\ new.Users[Len(new.Users)].Status = Normal

\* an accepted UpdatePermission has just changed, in place, the permission of
\* a user that the committed profile of the chain already lists
C18_Witness ==
    /\ last.op = "apply" /\ last.type = TransactionTypeUpdatePermission /\ last.err = OK
    /\ \E id \in DOMAIN ms[1].dirty.databases \cap DOMAIN ms[1].readonly.databases :
          /\ ms[1].dirty.databases[id] # Nil
          /\ LET d == ms[1].dirty.databases[id][1].Users
                 c == ms[1].readonly.databases[id][1].Users
             IN /\ Len(d) = Len(c) /\ Len(d) >= 2
                /\ \E i \in 1 .. Len(d) : /\ d[i].Permission # c[i].Permission
                                          /\ d[i] = [c[i] EXCEPT !.Permission = d[i].Permission]


\* C19: IssueKeys effect.  After apply accepts an IssueKeys, the profile that
\* load_sqlchain_object returns for the target carries the supplied key on
\* every miner that miner_keys names and is otherwise as before.
C19_IssueKeysEffect ==
    \A tx \in IssueKeysTxs(ms[1]) :
        LET s == ms[1]
            r == apply(s, tx, Env(1))
            id == DatabaseID(tx.TargetSQLChain)
            old == loadSQLChainObject(s, id).o[1]
            new == loadSQLChainObject(r.s, id).o[1]
        IN r.err = OK =>
              /\ Len(new.Miners) = Len(old.Miners)
              /\ \A i \in 1 .. Len(old.Miners) :
                    IF \E k \in 1 .. Len(tx.MinerKeys) : tx.MinerKeys[k].Miner = old.Miners[i].Address
                    THEN \E k \in 1 .. Len(tx.MinerKeys) :
                            /\ tx.MinerKeys[k].Miner = old.Miners[i].Address
                            /\ new.Miners[i].EncryptionKey = tx.MinerKeys[k].EncryptionKey
                    ELSE new.Miners[i] = old.Miners[i]


\* the Transfer is routed to the SQLChain transfer: it passes the nonce gate,
\* its sender address maps to a chain the overlay loads and is a user of it
RoutedToSQLChain(s, tx) ==
    /\ nextNonce(s, tx.Sender).err = OK
    /\ nextNonce(s, tx.Sender).nonce = tx.Nonce
    /\ loadSQLChainObject(s, DatabaseID(tx.Sender)).loaded
    /\ FirstUserIndex(loadSQLChainObject(s, DatabaseID(tx.Sender)).o[1].Users, tx.Sender) # 0

\* C20: SQLChain-transfer effect.  A routed Transfer whose token type differs
\* from the chain's fails with WrongTokenType; a routed Transfer that apply
\* accepts leaves, for load_sqlchain_object, the deposit of that user
\* increased by amount if the deposit was below min_dep, and otherwise the
\* advance payment of that user increased by amount.
C20_SQLChainTransfer ==
    \A tx \in DepositTransferTxs(ms[1]) :
        LET s == ms[1]
            r == apply(s, tx, Env(1))
            id == DatabaseID(tx.Sender)
            old == loadSQLChainObject(s, id).o[1]
            new == loadSQLChainObject(r.s, id).o[1]
            i == FirstUserIndex(old.Users, tx.Sender)
            minDep == old.GasPrice * QPS * UpdatePeriod * Len(old.Miners)
        IN RoutedToSQLChain(s, tx) =>
              /\ old.TokenType # tx.TokenType => r.err = ErrWrongTokenType
              /\ r.err = OK =>
                    IF old.Users[i].Deposit < minDep
                    THEN new.Users[i].Deposit = old.Users[i].Deposit + tx.Amount
                    ELSE new.Users[i].AdvancePayment = old.Users[i].AdvancePayment + tx.Amount


\* the UpdateBilling passes the nonce gate of apply and names a chain that the
\* overlay can load
ReachesBilling(s, tx) ==
    /\ nextNonce(s, SigneeAddress(tx)).err = OK
    /\ nextNonce(s, SigneeAddress(tx)).nonce = tx.Nonce
    /\ loadSQLChainObject(s, DatabaseID(tx.Receiver)).loaded

\* what the users of the profile, taken in order from the i-th, add to the
\* pending income of miner m by the stated rule: the listed income times the
\* gas price when the advance payment covers the bill, and otherwise the
\* part of it that the remaining advance payment covers
StatedCredit(profile, tx, m, i) ==
    LET RECURSIVE Go(_, _)
        Go(k, acc) ==
            IF k > Len(profile.Users) THEN acc
            ELSE LET u == profile.Users[k]
                     bill == costMap(tx, u.Address) * profile.GasPrice
                     inc == userMap(tx, u.Address, m) * profile.GasPrice
                 IN Go(k + 1, acc + (IF u.AdvancePayment >= bill THEN inc
                                     ELSE (inc * u.AdvancePayment) \div bill))
    IN Go(i, 0)

\* C21: UpdateBilling arrears split.  After an accepted UpdateBilling on a
\* chain with a gas price, every user whose advance payment was below
\* bill = cost x gas_price has advance payment 0 and status Arrears, and the
\* pending income of each miner is what the users credit by the stated rule,
\* floor(income x gas_price x advance_payment / bill) for a user in arrears.
C21_ArrearsSplit ==
    \A tx \in UpdateBillingTxs(ms[1]) :
        LET s == ms[1]
            r == apply(s, tx, Env(1))
            id == DatabaseID(tx.Receiver)
            old == loadSQLChainObject(s, id).o[1]
            new == loadSQLChainObject(r.s, id).o[1]
        IN (ReachesBilling(s, tx) /\ r.err = OK /\ old.GasPrice > 0) =>
              /\ \A i \in 1 .. Len(old.Users) :
                    old.Users[i].AdvancePayment < costMap(tx, old.Users[i].Address) * old.GasPrice =>
                        /\ new.Users[i].AdvancePayment = 0
                        /\ new.Users[i].Status = Arrears
              /\ \A j \in 1 .. Len(old.Miners) :
                    new.Miners[j].PendingIncome = StatedCredit(old, tx, old.Miners[j].Address, 1)


\* the sender of the UpdateBilling is no miner of the target chain
SenderNotMiner(s, tx) ==
    LET so == loadSQLChainObject(s, DatabaseID(tx.Receiver)).o[1] IN
    \A j \in 1 .. Len(so.Miners) : so.Miners[j].Address # SigneeAddress(tx)

\* C22: UpdateBilling sender check.  For every existing target chain,
\* whatever the gas price it was created with, an UpdateBilling (past the
\* nonce gate) whose sender is no miner of the chain fails with InvalidSender
\* and leaves the profile that load_sqlchain_object returns as it was.
C22_BillingSender ==
    \A tx \in UpdateBillingTxs(ms[1]) :
        LET s == ms[1]
            r == apply(s, tx, Env(1))
            id == DatabaseID(tx.Receiver)
        IN (ReachesBilling(s, tx) /\ SenderNotMiner(s, tx)) =>
              /\ r.err = ErrInvalidSender
              /\ loadSQLChainObject(r.s, id) = loadSQLChainObject(s, id)

\* a call has just been refused in a state where a chain with a miner that has
\* pending income exists and an UpdateBilling of the owner of the chain, who
\* is not one of its miners, is refused with InvalidSender
C22_Witness ==
    /\ last.op = "apply" /\ last.err = Refused
    /\ \E tx \in UpdateBillingTxs(ms[1]) :
          LET l == loadSQLChainObject(ms[1], DatabaseID(tx.Receiver)) IN
          /\ ReachesBilling(ms[1], tx)
          /\ SenderNotMiner(ms[1], tx)
          /\ SigneeAddress(tx) = l.o[1].Owner
          /\ Len(l.o[1].Miners) = 1
          /\ l.o[1].Miners[1].PendingIncome > 0
          /\ tx.Users # <<>>
          /\ apply(ms[1], tx, Env(1)) = [s |-> ms[1], err |-> ErrInvalidSender]



\* ---------------------------------------------- raft: configuration changes
MaxIndex == 3
ServerIDs == {"a", "b", "c"}
ServerAddresses == {"x", "y", "z"}
Commands == {AddStaging, AddLearner, Demote, RemoveServer, Promote}

\* the configurations a server starts from: none before the bootstrap, or
\* the voter "a" alone or with a second server of any suffrage
StartConfigurations ==
    {EmptyConfiguration}
        \cup {[EmptyConfiguration EXCEPT !.Servers = <<Server(Peer, "a", "x", Ptr(1))>>]}
        \cup {[EmptyConfiguration EXCEPT
                  !.Servers = <<Server(Peer, "a", "x", Ptr(1)), Server(sf, "b", "y", Ptr(2))>>] :
                sf \in {Peer, Learner, Staging}}

InitRaft ==
    /\ ms = <<newMetaState>>
    /\ local = <<LocalProcess(1, 1)>>
    /\ snap = <<newMetaIndex>>
    /\ last = NoCall
    /\ kept = Nil
    /\ \E c \in StartConfigurations : cfgs = [NoConfigurations EXCEPT !.latest = c]

\* the change requests offered for a configuration at index idx
ChangeRequests(command, idx) ==
    {[command |-> command, serverID |-> id, serverAddress |-> addr, prevIndex |-> prev] :
        id \in ServerIDs \cup {""}, addr \in ServerAddresses \cup {""},
        prev \in {0, idx, idx + 1}}

\* one call of nextConfiguration on the latest configuration; the caller
\* appends the configuration returned without error at the next index
ChangeConfiguration(command) ==
    /\ cfgs.latestIndex < MaxIndex
    /\ \E change \in ChangeRequests(command, cfgs.latestIndex) :
       \E r \in {nextConfiguration(cfgs.latest, cfgs.latestIndex, change)} :
          cfgs' = [latest |-> IF r.err = OK THEN r.configuration ELSE cfgs.latest,
                   latestIndex |-> IF r.err = OK THEN cfgs.latestIndex + 1 ELSE cfgs.latestIndex,
                   change |-> change, next |-> r.configuration, err |-> r.err, called |-> TRUE]
    /\ UNCHANGED <<ms, local, snap, last, kept>>

NextRaft ==
    \/ ChangeConfiguration(AddStaging)
    \/ ChangeConfiguration(AddLearner)
    \/ ChangeConfiguration(Demote)
    \/ ChangeConfiguration(RemoveServer)
    \/ ChangeConfiguration(Promote)

SpecRaft == InitRaft /\ [][NextRaft]_vars

\* every change request of every command for the latest configuration
AllChangeRequests == UNION {ChangeRequests(c, cfgs.latestIndex) : c \in Commands}

\* the Peers of a configuration
Voters(configuration) ==
    {i \in 1 .. Len(configuration.Servers) : configuration.Servers[i].Suffrage = Peer}

\* at least one Peer, no empty ID or address, no duplicate ID or address
ValidConfiguration(configuration) ==
    LET servers == configuration.Servers IN
    /\ Voters(configuration) # {}
    /\ \A i \in 1 .. Len(servers) : servers[i].ID # "" /\ servers[i].Address # ""
    /\ \A i, j \in 1 .. Len(servers) :
          (servers[i].ID = servers[j].ID \/ servers[i].Address = servers[j].Address) => i = j

\* C23: next_configuration validity.  For the latest configuration of every
\* reachable state and every change request, nextConfiguration returns an
\* error with the empty configuration, or no error with a configuration that
\* has a Peer, no empty ID or address and no duplicate ID or address; a
\* RemoveServer or Demote of the only Peer returns an error.
C23_NextConfigurationValid ==
    \A change \in AllChangeRequests :
        LET r == nextConfiguration(cfgs.latest, cfgs.latestIndex, change)
            v == Voters(cfgs.latest)
        IN /\ \/ r.err # OK /\ r.configuration = EmptyConfiguration
              \/ r.err = OK /\ ValidConfiguration(r.configuration)
           /\ (change.command \in {RemoveServer, Demote}
                  /\ \E i \in v : v = {i} /\ cfgs.latest.Servers[i].ID = change.serverID) =>
                 r.err # OK

\* a RemoveServer of the only Peer of a configuration that has another server
\* has just been refused for the lack of a voter
C23_Witness ==
    /\ cfgs.called /\ cfgs.change.command = RemoveServer /\ cfgs.err = ErrNoVoter
    /\ cfgs.next = EmptyConfiguration
    /\ Len(cfgs.latest.Servers) >= 2
    /\ \E i \in Voters(cfgs.latest) :
          Voters(cfgs.latest) = {i} /\ cfgs.latest.Servers[i].ID = cfgs.change.serverID


\* the outcome r of a helper called on s moved the balance of k by delta, in
\* unbounded integers, or failed with err and left the balance as it was
MovedOrFailed(s, r, k, tt, delta, err) ==
    LET before == loadAccountBalance(s, k, tt).b
        after == loadAccountBalance(r.s, k, tt).b
    IN IF before + delta \in 0 .. MaxU
       THEN r.err = OK /\ after = before + delta
       ELSE r.err = err /\ after = before

\* C24: safe arithmetic.  safeAdd fails with Overflow exactly when the true
\* sum exceeds the maximum and safeSub with Underflow exactly when src > dst;
\* otherwise they yield the true sum and difference, and on failure dst keeps
\* its value.  So increaseAccountToken, decreaseAccountToken and an accepted
\* account transfer move balances by the exact amount and never wrap.
C24_SafeArithmetic ==
    /\ \A x, y \in 0 .. MaxU :
          /\ safeAdd(x, y) = IF x + y > MaxU THEN [v |-> x, err |-> ErrOverflow]
                             ELSE [v |-> x + y, err |-> OK]
          /\ safeSub(x, y) = IF y > x THEN [v |-> x, err |-> ErrUnderflow]
                             ELSE [v |-> x - y, err |-> OK]
    /\ \A k \in KeyAddrs, amount \in 0 .. MaxU, tt \in TokenTypes :
          loadAccountObject(ms[1], k).loaded =>
              /\ MovedOrFailed(ms[1], increaseAccountToken(ms[1], k, amount, tt),
                               k, tt, amount, ErrOverflow)
              /\ MovedOrFailed(ms[1], decreaseAccountToken(ms[1], k, amount, tt),
                               k, tt, 0 - amount, ErrUnderflow)
    /\ \A tx \in TransferTxs(ms[1]) :
          LET r == transferAccountToken(ms[1], tx) IN
          (r.err = OK /\ tx.Sender # tx.Receiver) =>
              /\ loadAccountBalance(r.s, tx.Sender, tx.TokenType).b
                    = loadAccountBalance(ms[1], tx.Sender, tx.TokenType).b - tx.Amount
              /\ loadAccountBalance(r.s, tx.Receiver, tx.TokenType).b
                    = loadAccountBalance(ms[1], tx.Receiver, tx.TokenType).b + tx.Amount

\* an account holds the maximum of a token, so that adding to it overflows,
\* and a Transfer has just failed with Overflow
C24_Witness ==
    /\ last.op = "apply" /\ last.err = Refused
    /\ \E tx \in TransferTxs(ms[1]) : apply(ms[1], tx, Env(1)).err = ErrOverflow
    /\ \E k \in KeyAddrs, tt \in TokenTypes :
          /\ loadAccountObject(ms[1], k).loaded
          /\ increaseAccountToken(ms[1], k, MaxU, tt).err = ErrOverflow
          /\ decreaseAccountToken(ms[1], k, MaxU, tt).err = ErrUnderflow


\* C25: two-phase account transfer.  A Transfer that apply refuses with
\* Underflow or Overflow leaves the overlay, dirty and readonly, the set of
\* existing accounts included, as it was before the call.
C25_TwoPhaseTransfer ==
    \A tx \in TransferTxs(ms[1]) :
        LET r == apply(ms[1], tx, Env(1)) IN
        r.err \in {ErrUnderflow, ErrOverflow} => r.s = ms[1]


\* CreateDatabase transactions of owner 1 over the range of gas prices: none,
\* small, half of the range and the maximum
WideCreateDatabaseTxs(s) ==
    {[type |-> TransactionTypeCreateDatabase, Owner |-> 1, Signee |-> 1, Nonce |-> n,
      TargetMiners |-> tm, GasPrice |-> gp, AdvancePayment |-> ap, TokenType |-> Particle] :
        tm \in MinerInputs, gp \in {0, 1, Mod \div 2, MaxU}, ap \in {0, 1, MaxAmount},
        n \in NonceInputs(s, 1)}

\* C26: CreateDatabase advance-payment check.  With min_advance the true
\* product gas_price x QPS x update_period x |target_miners|, a CreateDatabase
\* of its owner that passes the nonce gate fails with InvalidGasPrice when
\* its gas price is 0 and with InsufficientAdvancePayment when its advance
\* payment is below min_advance, and changes nothing in both cases.
C26_AdvanceCheck ==
    \A tx \in WideCreateDatabaseTxs(ms[1]) :
        LET s == ms[1]
            r == apply(s, tx, Env(1))
        IN (nextNonce(s, tx.Owner).err = OK /\ nextNonce(s, tx.Owner).nonce = tx.Nonce) =>
              /\ tx.GasPrice = 0 => (r.err = ErrInvalidGasPrice /\ r.s = s)
              /\ (tx.GasPrice > 0 /\ tx.AdvancePayment < MinAdvance(tx)) =>
                    (r.err = ErrInsufficientAdvancePayment /\ r.s = s)


\* the sum of the incomes that the UpdateBilling lists for miner m, over all
\* its users: the most this transaction can credit to m
SumIncomeOf(tx, m) ==
    LET RECURSIVE Go(_, _)
        Go(i, acc) == IF i > Len(tx.Users) THEN acc
                      ELSE Go(i + 1, acc + SumIncome(tx.Users[i].Miners, m))
    IN Go(1, 0)

OfferedProfile(tx) ==
    [Provider |-> SigneeAddress(tx), Space |-> tx.Space, Memory |-> tx.Memory,
     LoadAvgPerCPU |-> tx.LoadAvgPerCPU, TargetUser |-> tx.TargetUser,
     Deposit |-> MinProviderDeposit, GasPrice |-> tx.GasPrice, NodeID |-> tx.NodeID]

\* C28: ProvideService.  A ProvideService that passes the nonce gate fails
\* with Underflow and installs nothing when the sender's Particle balance is
\* below MinProviderDeposit; otherwise it is accepted, the balance is lower by
\* exactly MinProviderDeposit, and load_provider_object(sender) returns the
\* offered profile if no profile was registered for the sender and the
\* registered profile, as it was, if one was.
C28_ProvideService ==
    \A tx \in ProvideServiceTxs(ms[1]) :
        LET s == ms[1]
            r == apply(s, tx, Env(1))
            sender == SigneeAddress(tx)
            before == loadAccountBalance(s, sender, Particle).b
        IN (nextNonce(s, sender).err = OK /\ nextNonce(s, sender).nonce = tx.Nonce) =>
              IF before < MinProviderDeposit
              THEN /\ r.err = ErrUnderflow
                   /\ loadProviderObject(r.s, sender) = loadProviderObject(s, sender)
              ELSE /\ r.err = OK
                   /\ loadAccountBalance(r.s, sender, Particle).b = before - MinProviderDeposit
                   /\ loadProviderObject(r.s, sender)
                        = IF loadProviderObject(s, sender).loaded
                          THEN loadProviderObject(s, sender)
                          ELSE [o |-> Ptr(OfferedProfile(tx)), loaded |-> TRUE]


\* C29: BaseAccount handler.  In every state that the transactions, commit
\* and clean reach: if the address has an account whose next nonce
\* is not 0 the handler fails with AccountExists and changes nothing;
\* otherwise the balances of the resulting account are the existing balances
\* (zero when there was no account) plus the balances of the transaction, and
\* if one of the sums overflows the handler fails with Overflow and the
\* balances are as before.
C29_BaseAccount ==
    \A tx \in BaseAccountTxs(ms[1]) :
        LET s == ms[1]
            k == tx.Address
            r == storeBaseAccount(s, k, AddressOfAccount(tx))
            l == loadAccountObject(s, k)
            n == loadAccountObject(r.s, k)
            old == IF l.loaded THEN l.o[1].TokenBalance ELSE <<0, 0>>
            sum == [tt \in TokenTypes |-> old[tt] + tx.Account.TokenBalance[tt]]
        IN IF l.loaded /\ l.o[1].NextNonce # 0
           THEN r.err = ErrAccountExists /\ r.s = s
           ELSE IF \E tt \in TokenTypes : sum[tt] > MaxU
           THEN r.err = ErrOverflow /\ n = l
           ELSE /\ r.err = OK
                /\ n.loaded
                /\ \A tt \in TokenTypes : n.o[1].TokenBalance[tt] = sum[tt]

\* account 2 exists with next nonce 0 and a balance of its own (a Transfer has
\* created it), account 1 exists with a next nonce above 0, and the handler
\* merges one BaseAccount into account 2, refuses another with Overflow and
\* refuses one for account 1 with AccountExists
C29_Witness ==
    LET l == loadAccountObject(ms[1], 2) IN
    /\ l.loaded /\ l.o[1].NextNonce = 0 /\ l.o[1].TokenBalance = <<0, MaxAmount>>
    /\ \E tx \in BaseAccountTxs(ms[1]) :
          /\ tx.Address = 2 /\ tx.Account.TokenBalance = <<MaxAmount, 0>>
          /\ storeBaseAccount(ms[1], 2, AddressOfAccount(tx)).err = OK
          /\ loadAccountObject(storeBaseAccount(ms[1], 2, AddressOfAccount(tx)).s, 2).o[1].TokenBalance
                = <<MaxAmount, MaxAmount>>
    /\ \E tx \in BaseAccountTxs(ms[1]) :
          /\ tx.Address = 2
          /\ storeBaseAccount(ms[1], 2, AddressOfAccount(tx)) = [s |-> ms[1], err |-> ErrOverflow]
    /\ \E tx \in BaseAccountTxs(ms[1]) :
          /\ tx.Address = 1
          /\ storeBaseAccount(ms[1], 1, AddressOfAccount(tx)) = [s |-> ms[1], err |-> ErrAccountExists]



\* C30: AddStaging rule.  When nextConfiguration accepts an AddStaging: a
\* server present as Peer has only its address replaced; a server present as
\* Learner or Staging is replaced in place by a Peer entry with the new
\* address; an absent server is appended at the end as Peer; every other
\* entry and the order are unchanged.
C30_AddStaging ==
    \A change \in ChangeRequests(AddStaging, cfgs.latestIndex) :
        LET r == nextConfiguration(cfgs.latest, cfgs.latestIndex, change)
            old == cfgs.latest.Servers
            new == r.configuration.Servers
            at == {i \in 1 .. Len(old) : old[i].ID = change.serverID}
        IN r.err = OK =>
              /\ \A i \in 1 .. Len(old) : i \notin at => (i <= Len(new) /\ new[i] = old[i])
              /\ at = {} =>
                    /\ Len(new) = Len(old) + 1
                    /\ new[Len(new)].ID = change.serverID
                    /\ new[Len(new)].Address = change.serverAddress
                    /\ new[Len(new)].Suffrage = Peer
              /\ \A i \in at :
                    /\ Len(new) = Len(old)
                    /\ IF old[i].Suffrage = Peer
                       THEN new[i] = [old[i] EXCEPT !.Address = change.serverAddress]
                       ELSE /\ new[i].ID = change.serverID
                            /\ new[i].Address = change.serverAddress
                            /\ new[i].Suffrage = Peer

\* the latest configuration lists "b" second, as Staging with a public key,
\* and the AddStaging of "b" at a new address returns it with that entry
\* replaced in place by a new Peer entry
C30_Witness ==
    /\ Len(cfgs.latest.Servers) = 2
    /\ cfgs.latest.Servers[2] = Server(Staging, "b", "y", Ptr(2))
    /\ LET r == nextConfiguration(cfgs.latest, cfgs.latestIndex,
                    [command |-> AddStaging, serverID |-> "b", serverAddress |-> "z",
                     prevIndex |-> cfgs.latestIndex])
       IN /\ r.err = OK
          /\ r.configuration.Servers
                = <<cfgs.latest.Servers[1], Server(Peer, "b", "z", Nil)>>


\* C31: AddLearner rule.  When nextConfiguration accepts an AddLearner: an
\* absent server is appended at the end as Learner; a server present as Peer
\* or Staging keeps its suffrage and has only its address replaced; every
\* other entry is unchanged and the number of Peers is not reduced.
C31_AddLearner ==
    \A change \in ChangeRequests(AddLearner, cfgs.latestIndex) :
        LET r == nextConfiguration(cfgs.latest, cfgs.latestIndex, change)
            old == cfgs.latest.Servers
            new == r.configuration.Servers
            at == {i \in 1 .. Len(old) : old[i].ID = change.serverID}
        IN r.err = OK =>
              /\ \A i \in 1 .. Len(old) : i \notin at => (i <= Len(new) /\ new[i] = old[i])
              /\ at = {} =>
                    /\ Len(new) = Len(old) + 1
                    /\ new[Len(new)].ID = change.serverID
                    /\ new[Len(new)].Address = change.serverAddress
                    /\ new[Len(new)].Suffrage = Learner
              /\ \A i \in at :
                    /\ Len(new) = Len(old)
                    /\ old[i].Suffrage \in {Peer, Staging} =>
                          new[i] = [old[i] EXCEPT !.Address = change.serverAddress]
                    /\ old[i].Suffrage = Learner =>
                          /\ new[i].ID = change.serverID
                          /\ new[i].Address = change.serverAddress
                          /\ new[i].Suffrage = Learner
              /\ Cardinality(Voters(r.configuration)) >= Cardinality(Voters(cfgs.latest))

\* the latest configuration lists "b" second, as Peer, and the AddLearner of
\* "b" at a new address returns it with only that address replaced
C31_Witness ==
    /\ Len(cfgs.latest.Servers) = 2
    /\ cfgs.latest.Servers[2] = Server(Peer, "b", "y", Ptr(2))
    /\ LET r == nextConfiguration(cfgs.latest, cfgs.latestIndex,
                    [command |-> AddLearner, serverID |-> "b", serverAddress |-> "z",
                     prevIndex |-> cfgs.latestIndex])
       IN /\ r.err = OK
          /\ r.configuration.Servers
                = <<cfgs.latest.Servers[1], Server(Peer, "b", "z", Ptr(2))>>


\* the start configurations that list no Staging server
StartNoStaging ==
    {c \in StartConfigurations :
        \A i \in 1 .. Len(c.Servers) : c.Servers[i].Suffrage # Staging}

InitRaftNoStaging ==
    /\ ms = <<newMetaState>>
    /\ local = <<LocalProcess(1, 1)>>
    /\ snap = <<newMetaIndex>>
    /\ last = NoCall
    /\ kept = Nil
    /\ \E c \in StartNoStaging : cfgs = [NoConfigurations EXCEPT !.latest = c]

SpecRaftNoStaging == InitRaftNoStaging /\ [][NextRaft]_vars

\* C32: Staging is unreachable.  Starting from a configuration without a
\* Staging server, no sequence of accepted changes produces a configuration
\* that lists a Staging server, and every Promote that is accepted returns
\* the configuration it was given.
C32_NoStaging ==
    /\ \A i \in 1 .. Len(cfgs.latest.Servers) : cfgs.latest.Servers[i].Suffrage # Staging
    /\ \A change \in ChangeRequests(Promote, cfgs.latestIndex) :
          LET r == nextConfiguration(cfgs.latest, cfgs.latestIndex, change)
          IN r.err = OK => r.configuration = cfgs.latest

\* after an accepted AddStaging of "c" and an accepted AddLearner, the Promote
\* of "c" is accepted at the last index and leaves the three servers as they were
C32_Witness ==
    /\ cfgs.called
    /\ cfgs.change.command = Promote
    /\ cfgs.change.serverID = "c"
    /\ cfgs.err = OK
    /\ cfgs.latestIndex = MaxIndex
    /\ Len(cfgs.latest.Servers) = 3
    /\ \E i \in 1 .. 3 : cfgs.latest.Servers[i] = Server(Peer, "c", "z", Nil)
    /\ \E i \in 1 .. 3 : cfgs.latest.Servers[i].Suffrage = Learner
    /\ cfgs.next = cfgs.latest


\* a BaseAccount whose account carries the largest nonce
WrapBaseAccountTxs ==
    {[type |-> TransactionTypeBaseAccount, Address |-> a, Nonce |-> 0,
      Account |-> Account(MaxU, 1, 0)] : a \in KeyAddrs}

\* tx is rejected by the nonce gate in s and after the commit of s
Replayed(s, tx) ==
    /\ apply(s, tx, Env(1)).err = ErrInvalidAccountNonce
    /\ apply(commit(s), tx, Env(1)).err = ErrInvalidAccountNonce

\* C33: replay protection.  In every reachable state, a transaction that apply
\* accepts, a BaseAccount included, is rejected with InvalidAccountNonce when
\* it is applied again, right away or after a commit, so no two accepted
\* transactions carry the same sender address and nonce.
C33_Replay ==
    \A tx \in AllAccountTxs(ms[1]) \cup WrapBaseAccountTxs :
        \E r \in {apply(ms[1], tx, Env(1))} :
            r.err = OK => Replayed(r.s, tx)


\* what the iteration of updateBilling for the i-th user adds to the pending
\* incomes of the miners of the settled profile, summed over the miners
CreditedFor(settled, tx, i) ==
    LET billed == BillUser(settled, tx, i)
        RECURSIVE Go(_, _)
        Go(j, acc) == IF j > Len(settled.Miners) THEN acc
                      ELSE Go(j + 1, acc + billed.Miners[j].PendingIncome
                                         - settled.Miners[j].PendingIncome)
    IN Go(1, 0)

\* C34: billing never pays out more than it collects.  After an accepted
\* UpdateBilling, for each user of the chain, what the transaction adds to the
\* pending income of the chain's miners on account of that user is at most
\* what it takes from the advance payment of that user.
C34_BillingBalance ==
    \A tx \in UpdateBillingTxs(ms[1]) :
        \E s \in {ms[1]} : \E r \in {apply(s, tx, Env(1))} :
        LET id == DatabaseID(tx.Receiver)
            old == loadSQLChainObject(s, id).o[1]
            new == loadSQLChainObject(r.s, id).o[1]
            settled == [old EXCEPT !.Miners = SettleMiners(@)]
        IN (ReachesBilling(s, tx) /\ r.err = OK /\ old.GasPrice > 0) =>
              \A i \in 1 .. Len(old.Users) :
                  CreditedFor(settled, tx, i)
                      <= old.Users[i].AdvancePayment - new.Users[i].AdvancePayment


\* ---- accounts and providers only: no chain is ever created
NextProviders ==
    \/ ChainApplyBaseAccount(1)
    \/ ChainApplyTransfer(1)
    \/ ApplyProvideService(1)
    \/ Commit(1)

SpecProviders == Init /\ [][NextProviders]_vars

\* the sum of the deposits of the provider profiles that load_provider_object
\* returns
SumDeposits(s) ==
    LET RECURSIVE Go(_)
        Go(S) == IF S = {} THEN 0
                 ELSE LET a == CHOOSE x \in S : TRUE
                          l == loadProviderObject(s, a)
                      IN (IF l.loaded THEN l.o[1].Deposit ELSE 0) + Go(S \ {a})
    IN Go(Addrs)

\* the Particle held by the accounts plus the deposits held by the profiles
ParticleAndDeposits(s) == SumBalances(s, Particle) + SumDeposits(s)

\* C35: provider deposits are accounted for.  With no chain created, every
\* accepted ProvideService, a repeated one of the same sender included, and
\* every commit leave the sum of the Particle balances of all accounts plus
\* the deposits of all registered provider profiles as it was.
C35_DepositsAccounted ==
    /\ ParticleAndDeposits(commit(ms[1])) = ParticleAndDeposits(ms[1])
    /\ \A tx \in ProvideServiceTxs(ms[1]) :
          \E r \in {apply(ms[1], tx, Env(1))} :
              r.err = OK => ParticleAndDeposits(r.s) = ParticleAndDeposits(ms[1])


\* C36: re-registration is visible.  In every reachable state, after an
\* accepted ProvideService of sender P load_provider_object(P) returns a
\* registered profile, also when an earlier CreateDatabase of the block that
\* is not yet committed consumed the committed profile of P, and the profile
\* is still returned after the next commit.
C36_Reregistration ==
    \A tx \in ProvideServiceTxs(ms[1]) :
        \E r \in {apply(ms[1], tx, Env(1))} :
            r.err = OK =>
                /\ loadProviderObject(r.s, SigneeAddress(tx)).loaded
                /\ loadProviderObject(commit(r.s), SigneeAddress(tx)).loaded

====
